---- MODULE Spec2Model ----
(***************************************************************************)
(* A model of cbauthimpl's Svc (the locally held credsDB, the freshness   *)
(* wait handle, the outbound-call semaphore, the version-keyed caches and *)
(* the TLS notifier with its loop) together with the verification calls   *)
(* that run against it.  Every in-flight call is a record in the bag       *)
(* `calls`: goroutines are anonymous, so only the number of calls in each  *)
(* local state matters.                                                    *)
(***************************************************************************)
EXTENDS Bags, FiniteSets, Integers, Sequences, TLC

VARIABLES
    db,               \* s.db: the current credsDB, NilDB when nil
    staleErr,         \* s.staleErr
    freshChan,        \* s.freshChan: TRUE when non-nil
    chanClosed,       \* the channel made at construction has been closed
    timer,            \* the grace timer: "none", "armed" or "fired"
    semaphore,        \* number of tokens in the semaphore channel
    upCache,          \* s.upCache, most recently used entry first
    authCache,        \* s.authCache
    clientCertCache,  \* s.clientCertCache
    tlsCh,            \* tlsNotifier.ch: number of queued notifications (0 or 1)
    notifying,        \* ids of UpdateDB calls between Unlock and notifyTLSChange
    notifier,         \* tlsNotifier.callback and the position and retry timer of loop()
    tlsHist,          \* history: notifications, wake-ups and callback invocations
    calls,            \* bag of the verification calls in flight
    returned,         \* the call that returned in the last step, NoCall if none did
    nUpdates,         \* history: number of credsDBs installed by UpdateDB
    nResets,          \* history: number of ResetSvc calls
    retMax,           \* history: largest id of an UpdateDB call that has returned
    lastResetAt,      \* history: value of nUpdates at the latest ResetSvc, -1 if none
    verdicts,         \* history: the answers the authority gave, as [cache, key, val]
    stale,            \* history: <<cache, version>> of the entries an update has outdated
    arrivals,         \* environment: further calls may arrive
    lru,              \* an LRU cache on its own, with the history of its use
    Default,          \* cbauth's Default authenticator: 0 when nil, else its Svc
    inits,            \* the initialization calls of the Default authenticator
    sitter            \* the babysitter of the RPC service and its error policy

vars == <<db, staleErr, freshChan, chanClosed, timer, semaphore, upCache,
          authCache, clientCertCache, tlsCh, notifier, tlsHist, notifying,
          calls, returned, nUpdates, nResets, retMax, lastResetAt, verdicts,
          stale, arrivals, lru, Default, inits, sitter>>

extVars == <<lru, Default, inits, sitter>>
svcVars == <<db, staleErr, freshChan, chanClosed, timer>>
cacheVars == <<upCache, authCache, clientCertCache>>
histVars == <<nUpdates, nResets, retMax, lastResetAt, stale, arrivals,
              extVars>>

----------------------------------------------------------------------------
(* Bounds of the model *)

MaxCalls == 2
MaxUpdates == 2
MaxResets == 1
MaxCacheCalls == 2
MaxCacheUpdates == 3
MaxAuthUpdates == 2
MaxStampCalls == 1
MaxCertCalls == 2
MaxCertUpdates == 2
MaxSpecialCalls == 2
MaxSpecialUpdates == 2
MaxNotifierUpdates == 2
MaxNotifierResets == 1
MaxRegistrations == 2
MaxFailures == 2
MaxCredsCalls == 1
MaxCredsUpdates == 1
MaxLRUOps == 5
LRUCapacity == 2
MaxInits == 4
MaxStaleCalls == 2
MaxStaleUpdates == 1
MaxStaleResets == 2
MaxLocalCalls == 1
MaxLocalUpdates == 2
MaxSitterCalls == 2
MaxSitterUpdates == 1
MaxSitterReports == 2
MaxBlockedCalls == 1
MaxBlockedFailures == 1
MaxThrottleCalls == 11
MaxThrottleOther == 1

(* Program constants *)

SemCapacity == 10
UpCacheSize == 1024
AuthCacheSize == 256
ClientCertCacheSize == 256

----------------------------------------------------------------------------
(* Values *)

NilErr == ""
InitErr == "DBStaleError{}"
ErrNoAuth == "Authentication failure"
ErrUserNotFound == "Username not found"
ErrCallbackAlreadyRegistered == "Certificate refresh callback is already registered"
ResetErrs == {"DBStaleError{e1}", "DBStaleError{e2}"}

Versions == {"v1", "v2"}

\* tls.VersionTLS10, tls.VersionTLS11, tls.VersionTLS12
VersionTLS10 == 769
VersionTLS11 == 770
VersionTLS12 == 771

ToLower(str) ==
    CASE str = "TLSv1" -> "tlsv1"
      [] str = "TLSv1.1" -> "tlsv1.1"
      [] str = "TLSv1.2" -> "tlsv1.2"
      [] OTHER -> str

minTLSVersion(str) ==
    CASE ToLower(str) = "tlsv1" -> VersionTLS10
      [] ToLower(str) = "tlsv1.1" -> VersionTLS11
      [] ToLower(str) = "tlsv1.2" -> VersionTLS12
      [] OTHER -> VersionTLS10

importTLSConfig(cfg) ==
    [MinVersion |-> minTLSVersion(cfg.MinTLSVersion),
     CipherSuites |-> cfg.Ciphers,
     CipherSuiteNames |-> cfg.CipherNames,
     CipherSuiteOpenSSLNames |-> cfg.CipherOpenSSLNames,
     PreferServerCipherSuites |-> cfg.CipherOrder]

\* The zero value of tlsConfigImport and of Cache
ZeroTLSImport ==
    [MinTLSVersion |-> "", Ciphers |-> <<>>, CipherNames |-> <<>>,
     CipherOpenSSLNames |-> <<>>, CipherOrder |-> FALSE]

ZeroCache ==
    [Nodes |-> <<>>, AuthCheckURL |-> "", PermissionCheckURL |-> "",
     SpecialUser |-> "", PermissionsVersion |-> "", AuthVersion |-> "",
     CertVersion |-> 0, ExtractUserFromCertURL |-> "",
     ClientCertAuthState |-> "", ClientCertAuthVersion |-> "",
     TLSConfig |-> ZeroTLSImport]

\* The password of the first node flagged local, "" when there is none
RECURSIVE localPassword(_)
localPassword(nodes) ==
    IF nodes = <<>> THEN ""
    ELSE IF Head(nodes).Local THEN Head(nodes).Password
    ELSE localPassword(Tail(nodes))

\* cacheToCredsDB; id is the identity of the credsDB object it allocates
cacheToCredsDB(c, id) ==
    [id |-> id,
     nodes |-> c.Nodes,
     authCheckURL |-> c.AuthCheckURL,
     permissionCheckURL |-> c.PermissionCheckURL,
     specialUser |-> c.SpecialUser,
     specialPassword |-> localPassword(c.Nodes),
     permissionsVersion |-> c.PermissionsVersion,
     authVersion |-> c.AuthVersion,
     certVersion |-> c.CertVersion,
     extractUserFromCertURL |-> c.ExtractUserFromCertURL,
     clientCertAuthState |-> c.ClientCertAuthState,
     clientCertAuthVersion |-> c.ClientCertAuthVersion,
     tlsConfig |-> importTLSConfig(c.TLSConfig)]

\* A nil *credsDB
NilDB == cacheToCredsDB(ZeroCache, 0)

IsNil(d) == d.id = 0

\* The fields needRefreshTLS compares
TLSFields(d) == <<d.certVersion, d.clientCertAuthState, d.tlsConfig>>

\* Faulty variant: every update counts as a change of the TLS settings
needRefreshTLS_always(new) == TRUE

needRefreshTLS(new) ==
    \/ IsNil(db)
    \/ db.certVersion # new.certVersion
    \/ db.clientCertAuthState # new.clientCertAuthState
    \/ db.tlsConfig # new.tlsConfig

----------------------------------------------------------------------------
(* LRUCache: entries most recently used first.  An entry carries, beside   *)
(* its key and value, the version of the credsDB of the call that stored  *)
(* it (ver), which no code reads.                                          *)

LRUIndex(cache, key) ==
    IF \E i \in 1..Len(cache) : cache[i].key = key
    THEN CHOOSE i \in 1..Len(cache) : cache[i].key = key
    ELSE 0

LRUFound(cache, key) == LRUIndex(cache, key) # 0

LRUEntry(cache, key) == cache[LRUIndex(cache, key)]

LRUWithout(cache, key) ==
    SelectSeq(cache, LAMBDA e : e.key # key)

\* Faulty variant: a hit leaves the order of the entries as it is
LRUGet_noRefresh(cache, key) == cache

\* The cache after Get(key): a hit becomes the most recently used entry
LRUGet(cache, key) ==
    IF LRUFound(cache, key)
    THEN <<LRUEntry(cache, key)>> \o LRUWithout(cache, key)
    ELSE cache

\* The cache after Set(key, val)
LRUSet(cache, key, val, ver, capacity) ==
    LET e == [key |-> key, val |-> val, ver |-> ver]
        rest == LRUWithout(cache, key)
    IN  IF LRUFound(cache, key) \/ Len(cache) < capacity
        THEN <<e>> \o rest
        ELSE <<e>> \o SubSeq(cache, 1, Len(cache) - 1)

\* An empty cache; used: the keys in the order of their latest use by Get
\* or Set, latest first; op: the latest operation with the cache and the
\* order of use it found
ZeroLRU == [cache |-> <<>>, used |-> <<>>, op |-> [kind |-> "none"]]

----------------------------------------------------------------------------
(* Calls *)

ZeroArg ==
    [user |-> "", password |-> "", domain |-> "", permission |-> "",
     tls |-> FALSE, cert |-> "", host |-> "", port |-> 0]

(***************************************************************************)
(* A call entering an operation.  Every operation starts with              *)
(* db := fetchDB(s), so the record names its operation and arguments (op,  *)
(* arg) only from the step that first uses them.  The fields after val     *)
(* are history no code reads:                                              *)
(*   nOut     outbound calls the call has issued                           *)
(*   blocked  the call has waited on the fresh channel                     *)
(*   hitVer   the ver of the cache entry it was answered from              *)
(*   m        retMax when its latest fetchDB started                       *)
(*   early    its latest fetchDB started on a service with a grace period, *)
(*            before any UpdateDB, ResetSvc or Timeout                     *)
(*   s0       "" unless it started after a ResetSvc with no UpdateDB       *)
(*            since: then the error of the latest ResetSvc                 *)
(*   prior    the answers the authority had given for its cache key when   *)
(*            it looked the key up                                         *)
(***************************************************************************)
NewCall ==
    [op |-> "", arg |-> ZeroArg, pc |-> "fetch", ret |-> "body",
     db |-> NilDB, db2 |-> NilDB,
     kind |-> "", err |-> NilErr, val |-> <<>>,
     nOut |-> 0, blocked |-> FALSE, hitVer |-> "",
     m |-> 0, early |-> FALSE,
     s0 |-> IF lastResetAt = nUpdates THEN staleErr ELSE NilErr,
     prior |-> {}]

\* No call: the value of returned after a step in which no call returns
NoCall ==
    [op |-> "", arg |-> ZeroArg, pc |-> "none", ret |-> "body",
     db |-> NilDB, db2 |-> NilDB,
     kind |-> "", err |-> NilErr, val |-> <<>>,
     nOut |-> 0, blocked |-> FALSE, hitVer |-> "",
     m |-> 0, early |-> FALSE, s0 |-> NilErr, prior |-> {}]

\* The call returns (kind, err, val) to its caller
Return(r, kind, err, val) ==
    [r EXCEPT !.pc = "done", !.kind = kind, !.err = err, !.val = val]

\* Call r goes on as r2, or returns when r2 is a return
Step(r, r2) ==
    IF r2.pc = "done"
    THEN /\ calls' = calls (-) SetToBag({r})
         /\ returned' = r2
    ELSE /\ calls' = (calls (-) SetToBag({r})) (+) SetToBag({r2})
         /\ returned' = NoCall

\* ResetSvc(e) runs while the calls are in flight
Disturbed(r, e) == IF r.s0 = NilErr THEN r ELSE [r EXCEPT !.s0 = e]

disturbCalls(e) ==
    /\ calls' = BagOfAll(LAMBDA r : Disturbed(r, e), calls)
    /\ returned' = NoCall

noCalls == UNCHANGED calls /\ returned' = NoCall

\* return ..., staleError(s)
staleError(r) ==
    IF staleErr = NilErr
    THEN Return(r, "panic", "impossible Svc state where staleErr is nil!", <<>>)
    ELSE Return(r, "error", staleErr, <<>>)

\* The result of a fetchDB goes to db for the operation's own fetch and to
\* db2 for VerifyOnServer's
SetFetched(r, d) ==
    IF r.ret = "body" THEN [r EXCEPT !.db = d, !.pc = r.ret]
    ELSE [r EXCEPT !.db2 = d, !.pc = r.ret]

\* fetchDB up to its first return, or to its first receive from c
fetchDB(r) ==
    LET r1 == [r EXCEPT !.m = retMax,
                        !.early = (timer = "armed" /\ nUpdates = 0 /\ nResets = 0)]
    IN  IF ~IsNil(db) \/ ~freshChan
        THEN SetFetched(r1, db)
        ELSE [r1 EXCEPT !.pc = "wait", !.blocked = TRUE]

----------------------------------------------------------------------------
(* The update-delivery side *)

\* Faulty variant: an update delivered to a Svc that holds a credsDB is dropped
updateDBLocked_once(new) ==
    /\ db' = IF IsNil(db) THEN new ELSE db
    /\ freshChan' = FALSE
    /\ chanClosed' = (chanClosed \/ freshChan)

\* Faulty variant: the channel is closed and s.freshChan keeps pointing to it
updateDBLocked_keepsChan(new) ==
    /\ db' = new
    /\ freshChan' = freshChan
    /\ chanClosed' = (chanClosed \/ freshChan)

\* Faulty variant: installing nil makes a new channel to wait on
updateDBLocked_remakes(new) ==
    /\ db' = new
    /\ freshChan' = IsNil(new)
    /\ chanClosed' = (chanClosed \/ freshChan)

updateDBLocked(new) ==
    /\ db' = new
    /\ freshChan' = FALSE
    /\ chanClosed' = (chanClosed \/ freshChan)

Max(a, b) == IF a >= b THEN a ELSE b

\* <<cache, version>> of the cache entries whose version differs from the
\* stamp of the credsDB being installed
Outdated(new) ==
    {<<"upCache", upCache[i].ver>> : i \in {j \in 1..Len(upCache) :
        upCache[j].ver # new.permissionsVersion}}
    \cup {<<"authCache", authCache[i].ver>> : i \in {j \in 1..Len(authCache) :
        authCache[j].ver # new.authVersion}}
    \cup {<<"clientCertCache", clientCertCache[i].ver>> :
        i \in {j \in 1..Len(clientCertCache) :
            clientCertCache[j].ver # new.clientCertAuthVersion}}

\* UpdateDB up to s.l.Unlock(); when the TLS settings did not change it
\* returns here
UpdateDB(c) ==
    LET new == cacheToCredsDB(c, nUpdates + 1)
        tlsUpdated == needRefreshTLS(new)
    IN  /\ updateDBLocked(new)
        /\ notifying' = IF tlsUpdated THEN notifying \cup {new.id} ELSE notifying
        /\ retMax' = IF tlsUpdated THEN retMax ELSE new.id
        /\ nUpdates' = nUpdates + 1
        /\ stale' = stale \cup Outdated(new)
        /\ noCalls
        /\ tlsHist' = [tlsHist EXCEPT !.lastTLS = TLSFields(new)]
        /\ UNCHANGED <<staleErr, timer, semaphore, cacheVars, tlsCh, notifier,
                       nResets, lastResetAt, verdicts, arrivals,
                   extVars>>

\* newTLSNotifier() and the start of loop(): no callback, the loop at its
\* select with retry nil. cb is the callback maybeExecuteCallback runs.
NewTLSNotifier == [callback |-> 0, pc |-> "select", retry |-> FALSE, cb |-> 0]

\* sent: calls of notifyTLSChangeLocked; recv, retried: wake-ups of the loop
\* by n.ch and by the retry timer; invoked, failed: invocations of the
\* callback and those that reported an error; regErr: what the latest
\* registerCallback returned, regs: the number of its calls; sentAtRun:
\* sent when the first invocation started, -1 before; sentAtRecv: sent at
\* the latest receive from n.ch; lastTLS: the TLS fields of the credsDB of
\* the latest UpdateDB, <<>> before the first; lastErr: what the latest
\* invocation of the callback returned; entryErr: what the package's
\* RegisterTLSRefreshCallback returned to the caller of the latest
\* registration, "pending" until it returns
ZeroTLSHist ==
    [sent |-> 0, recv |-> 0, retried |-> 0, invoked |-> 0, failed |-> 0,
     regErr |-> "none", regs |-> 0, sentAtRun |-> -1, sentAtRecv |-> 0,
     lastTLS |-> <<>>, lastErr |-> NilErr, entryErr |-> "none"]

\* Faulty variant: the notifications queue up
notifyTLSChangeLocked_queue == tlsCh' = tlsCh + 1

\* Faulty variant: n.ch <- struct{}{} without default, which waits for the
\* loop to take the queued notification
notifyTLSChangeLocked_blocking == tlsCh = 0 /\ tlsCh' = 1

\* Faulty variant: nothing is sent
notifyTLSChangeLocked_drop == tlsCh' = tlsCh

\* select { case n.ch <- struct{}{}: default: } on the channel of capacity 1
notifyTLSChangeLocked == tlsCh' = 1

\* s.tlsNotifier.notifyTLSChange() of an UpdateDB call, which then returns
notifyTLSChange(id) ==
    /\ id \in notifying
    /\ notifyTLSChangeLocked
    /\ tlsHist' = [tlsHist EXCEPT !.sent = @ + 1]
    /\ UNCHANGED notifier
    /\ notifying' = notifying \ {id}
    /\ retMax' = Max(retMax, id)
    /\ noCalls
    /\ UNCHANGED <<svcVars, semaphore, cacheVars, nUpdates, nResets,
                   lastResetAt, verdicts, stale, arrivals,
                   extVars>>

\* Faulty variant: a nil error is recorded like any other
ResetSvc_acceptsNil(e) ==
    /\ staleErr' = e
    /\ db' = NilDB
    /\ freshChan' = FALSE
    /\ chanClosed' = (chanClosed \/ freshChan)
    /\ nResets' = nResets + 1
    /\ lastResetAt' = nUpdates
    /\ disturbCalls(e)
    /\ UNCHANGED <<timer, semaphore, cacheVars, tlsCh, notifier, tlsHist,
                   notifying, nUpdates, retMax, verdicts, stale, arrivals,
                   extVars>>

\* Faulty variant: the error is recorded and s.db is left in place
ResetSvc_keepsDB(e) ==
    /\ e # NilErr
    /\ staleErr' = e
    /\ UNCHANGED <<db, freshChan, chanClosed>>
    /\ nResets' = nResets + 1
    /\ lastResetAt' = nUpdates
    /\ disturbCalls(e)
    /\ UNCHANGED <<timer, semaphore, cacheVars, tlsCh, notifier, tlsHist,
                   notifying, nUpdates, retMax, verdicts, stale, arrivals,
                   extVars>>

ResetSvc(e) ==
    /\ e # NilErr
    /\ staleErr' = e
    /\ updateDBLocked(NilDB)
    /\ nResets' = nResets + 1
    /\ lastResetAt' = nUpdates
    /\ disturbCalls(e)
    /\ UNCHANGED <<timer, semaphore, cacheVars, tlsCh, notifier, tlsHist,
                   notifying, nUpdates, retMax, verdicts, stale, arrivals,
                   extVars>>

\* Faulty variant: the timeout drops the channel without closing it
Timeout_noClose ==
    /\ timer = "armed"
    /\ timer' = "fired"
    /\ freshChan' = FALSE
    /\ noCalls
    /\ UNCHANGED <<db, staleErr, chanClosed, semaphore, cacheVars, tlsCh,
                   notifier, tlsHist, notifying, histVars, verdicts>>

\* Faulty variant: the timeout records an error of its own
Timeout_setsErr ==
    /\ timer = "armed"
    /\ timer' = "fired"
    /\ freshChan' = FALSE
    /\ chanClosed' = (chanClosed \/ freshChan)
    /\ staleErr' = "grace period expired"
    /\ noCalls
    /\ UNCHANGED <<db, semaphore, cacheVars, tlsCh, notifier, tlsHist,
                   notifying, histVars, verdicts>>

\* The body NewSVCForTest hands to waitfn, run when the grace period ends
Timeout ==
    /\ timer = "armed"
    /\ timer' = "fired"
    /\ freshChan' = FALSE
    /\ chanClosed' = (chanClosed \/ freshChan)
    /\ noCalls
    /\ UNCHANGED <<db, staleErr, semaphore, cacheVars, tlsCh, notifier,
                   tlsHist, notifying, histVars, verdicts>>

----------------------------------------------------------------------------
(* tlsNotifier *)

\* What the steps of the notifier leave alone
notifierFrame ==
    /\ noCalls
    /\ UNCHANGED <<svcVars, semaphore, cacheVars, notifying, histVars,
                   verdicts>>

\* Faulty variant: the registration requests no notification
registerCallback_noNotify(callback) ==
    /\ tlsHist.entryErr # "pending"
    /\ IF notifier.callback # 0
       THEN /\ tlsHist' = [tlsHist EXCEPT !.regErr = ErrCallbackAlreadyRegistered,
                                          !.regs = @ + 1, !.entryErr = "pending"]
            /\ UNCHANGED notifier
       ELSE /\ notifier' = [notifier EXCEPT !.callback = callback]
            /\ tlsHist' = [tlsHist EXCEPT !.regErr = NilErr,
                                          !.regs = @ + 1, !.entryErr = "pending"]
    /\ UNCHANGED tlsCh
    /\ notifierFrame

\* registerCallback(callback), under n.l; callback is 1 or 2. It is the
\* call of cbauthimpl.RegisterTLSRefreshCallback made for the package's
\* RegisterTLSRefreshCallback.
registerCallback(callback) ==
    /\ tlsHist.entryErr # "pending"
    /\ IF notifier.callback # 0
       THEN /\ tlsHist' = [tlsHist EXCEPT !.regErr = ErrCallbackAlreadyRegistered,
                                          !.regs = @ + 1, !.entryErr = "pending"]
            /\ UNCHANGED <<notifier, tlsCh>>
       ELSE /\ notifier' = [notifier EXCEPT !.callback = callback]
            /\ notifyTLSChangeLocked
            /\ tlsHist' = [tlsHist EXCEPT !.sent = @ + 1, !.regErr = NilErr,
                                          !.regs = @ + 1, !.entryErr = "pending"]
    /\ notifierFrame

\* The package's RegisterTLSRefreshCallback after the call of
\* Default.RegisterTLSRefreshCallback(callback): it drops what the call
\* returned and returns nil
RegisterTLSRefreshCallback_return ==
    /\ tlsHist.entryErr = "pending"
    /\ tlsHist' = [tlsHist EXCEPT !.entryErr = NilErr]
    /\ UNCHANGED <<notifier, tlsCh>>
    /\ notifierFrame

\* loop(): case <-n.ch
loop_ch ==
    /\ notifier.pc = "select"
    /\ tlsCh > 0
    /\ tlsCh' = tlsCh - 1
    /\ notifier' = [notifier EXCEPT !.pc = "exec"]
    /\ tlsHist' = [tlsHist EXCEPT !.recv = @ + 1, !.sentAtRecv = tlsHist.sent]
    /\ notifierFrame

\* loop(): case <-retry, once the delay of time.After has passed
loop_retry ==
    /\ notifier.pc = "select"
    /\ notifier.retry
    /\ notifier' = [notifier EXCEPT !.pc = "exec", !.retry = FALSE]
    /\ tlsHist' = [tlsHist EXCEPT !.retried = @ + 1]
    /\ UNCHANGED tlsCh
    /\ notifierFrame

\* maybeExecuteCallback up to the call of the callback; without a callback
\* it returns nil and the loop clears retry
maybeExecuteCallback ==
    /\ notifier.pc = "exec"
    /\ IF notifier.callback = 0
       THEN /\ notifier' = [notifier EXCEPT !.pc = "select", !.retry = FALSE]
            /\ UNCHANGED tlsHist
       ELSE /\ notifier' = [notifier EXCEPT !.pc = "callback",
                                            !.cb = notifier.callback]
            /\ tlsHist' = [tlsHist EXCEPT
                              !.invoked = @ + 1,
                              !.sentAtRun = IF @ = -1 THEN tlsHist.sent ELSE @]
    /\ UNCHANGED tlsCh
    /\ notifierFrame

\* Faulty variant: the loop gives up after a failed invocation
callback_noRetry(err) ==
    /\ notifier.pc = "callback"
    /\ notifier' = [notifier EXCEPT !.pc = "select", !.cb = 0, !.retry = FALSE]
    /\ tlsHist' = [tlsHist EXCEPT !.failed = IF err = NilErr THEN @ ELSE @ + 1,
                                  !.lastErr = err]
    /\ UNCHANGED tlsCh
    /\ notifierFrame

\* The callback returns err and the loop goes back to its select: retry is
\* cleared on success, armed on failure when it is nil and kept otherwise
callback(err) ==
    /\ notifier.pc = "callback"
    /\ notifier' = [notifier EXCEPT !.pc = "select", !.cb = 0,
                                    !.retry = IF err = NilErr THEN FALSE ELSE TRUE]
    /\ tlsHist' = [tlsHist EXCEPT !.failed = IF err = NilErr THEN @ ELSE @ + 1,
                                  !.lastErr = err]
    /\ UNCHANGED tlsCh
    /\ notifierFrame

----------------------------------------------------------------------------
(* Host matching *)

\* net.ParseIP on the host names of the model: the canonical form of an IP
\* address, "" (nil) for anything else
ParseIP(host) ==
    CASE host = "127.0.0.1" -> "127.0.0.1"
      [] host = "::1" -> "::1"
      [] host = "fc00:0::10" -> "fc00::10"
      [] host = "fc00::10" -> "fc00::10"
      [] host = "10.0.0.1" -> "10.0.0.1"
      [] OTHER -> ""

IsLoopback(ip) == ip \in {"127.0.0.1", "::1"}

\* Faulty variant: hosts are compared as text only
matchHost_textual(n, host) == host = n.Host

matchHost(n, host) ==
    LET NodeHostIP == ParseIP(n.Host)
        HostIP == ParseIP(host)
    IN  IF IsLoopback(NodeHostIP) THEN TRUE
        ELSE IF IsLoopback(HostIP) /\ n.Local THEN TRUE
        ELSE IF NodeHostIP # "" /\ HostIP # "" THEN HostIP = NodeHostIP
        ELSE host = n.Host

\* <<user, password>>
getMemcachedCreds(n, host, port) ==
    IF ~matchHost(n, host) THEN <<"", "">>
    ELSE IF port \in n.Ports THEN <<n.User, n.Password>>
    ELSE <<"", "">>

\* The loop of GetCreds over db.nodes: <<memcachedUser, user, pwd>>.  The
\* named results keep the values of the last node tried when none matches.
RECURSIVE GetCredsLoop(_, _, _, _)
GetCredsLoop(nodes, d, host, port) ==
    IF nodes = <<>> THEN <<"", "", "">>
    ELSE LET mc == getMemcachedCreds(Head(nodes), host, port)
         IN  IF mc[1] # "" THEN <<mc[1], d.specialUser, mc[2]>>
             ELSE IF Tail(nodes) = <<>> THEN <<mc[1], "", mc[2]>>
             ELSE GetCredsLoop(Tail(nodes), d, host, port)

getAuthType(state) ==
    IF state = "enable" THEN "VerifyClientCertIfGiven"
    ELSE IF state = "mandatory" THEN "RequireAndVerifyClientCert"
    ELSE "NoClientCert"

----------------------------------------------------------------------------
(* fetchDB and the accessors *)

callsUnchanged ==
    UNCHANGED <<svcVars, semaphore, cacheVars, tlsCh, notifier, tlsHist,
                notifying, histVars, verdicts>>

\* A call enters an operation and runs to the first return of its fetchDB,
\* or to its receive from the fresh channel
Call ==
    /\ calls' = calls (+) SetToBag({fetchDB(NewCall)})
    /\ returned' = NoCall
    /\ callsUnchanged

\* <-c (twice) in fetchDB, possible once the channel is closed, and the
\* locked read of s.db that follows.  A closed channel stays closed, so
\* the receives commute with every step up to that read.
fetchDB_wake(r) ==
    /\ r.pc = "wait"
    /\ chanClosed
    /\ Step(r, SetFetched(r, db))
    /\ callsUnchanged

\* The call at the return of its operation's own fetchDB: the operation is op
Entered(r, op, arg) == [r EXCEPT !.op = op, !.arg = arg]

GetTLSConfig(r) ==
    /\ r.pc = "body"
    /\ LET c == Entered(r, "GetTLSConfig", ZeroArg)
       IN  Step(r, IF IsNil(c.db) THEN staleError(c)
                   ELSE Return(c, "ok", NilErr,
                               <<ToString(c.db.tlsConfig.MinVersion)>>))
    /\ callsUnchanged

GetClientCertAuthType(r) ==
    /\ r.pc = "body"
    /\ LET c == Entered(r, "GetClientCertAuthType", ZeroArg)
       IN  Step(r, IF IsNil(c.db) THEN staleError(c)
                   ELSE Return(c, "ok", NilErr,
                               <<getAuthType(c.db.clientCertAuthState)>>))
    /\ callsUnchanged

GetCreds(r, host, port) ==
    /\ r.pc = "body"
    /\ LET c == Entered(r, "GetCreds", [ZeroArg EXCEPT !.host = host, !.port = port])
       IN  Step(r, IF IsNil(c.db) THEN staleError(c)
                   ELSE Return(c, "ok", NilErr,
                               GetCredsLoop(c.db.nodes, c.db, host, port)))
    /\ callsUnchanged

----------------------------------------------------------------------------
(* The semaphore: a channel of capacity SemCapacity *)

\* Faulty variant: a semaphore without a capacity
wait_unbounded == semaphore' = semaphore + 1

\* s <- 1
wait == semaphore < SemCapacity /\ semaphore' = semaphore + 1

\* <-s
signal == semaphore > 0 /\ semaphore' = semaphore - 1

\* wait() directly followed by the deferred signal(): the function returns
\* before its outbound call
waitAndSignal == semaphore < SemCapacity /\ semaphore' = semaphore

\* http.NewRequest fails on a URL that url.Parse rejects
BadURL(url) == url = "%zz"

\* The answers of the authority to an outbound call
PermOutcomes == {"200", "401", "500", "transport"}

AddVerdict(cache, key, val) ==
    verdicts' = verdicts \cup {[cache |-> cache, key |-> key, val |-> val]}

\* The answers the authority has given for key
Prior(cache, key) == {v \in verdicts : v.cache = cache /\ v.key = key}

Identities ==
    {<<"Administrator", "admin">>, <<"bob", "local">>, <<"eve", "external">>}

CredsOutcomes ==
    [status : {"401", "500", "transport", "malformed"}, id : {<<"", "">>}]
        \cup [status : {"200"}, id : Identities]

\* executeReqAndGetCreds on the answer o: <<err, name, domain>>
executeReqAndGetCreds(o) ==
    CASE o.status = "transport" -> <<"transport error", "", "">>
      [] o.status = "401" -> <<ErrNoAuth, "", "">>
      [] o.status = "malformed" -> <<"invalid character in response", "", "">>
      [] o.status = "200" -> <<NilErr, o.id[1], o.id[2]>>
      [] OTHER -> <<"Expecting 200 or 401 from ns_server auth endpoint", "", "">>

----------------------------------------------------------------------------
(* checkPermission *)

\* Faulty variant: a key without the permissions version
userPermission_noVersion(d, user, domain, permission) ==
    <<"", user, domain, permission>>

userPermission(d, user, domain, permission) ==
    <<d.permissionsVersion, user, domain, permission>>

Bool(b) == IF b THEN <<"true">> ELSE <<"false">>

\* checkPermission from the return of fetchDB to the return of upCache.Get
checkPermission(r, user, domain, permission) ==
    /\ r.pc = "body"
    /\ LET key == userPermission(r.db, user, domain, permission)
           c == [Entered(r, "checkPermission",
                         [ZeroArg EXCEPT !.user = user, !.domain = domain,
                                         !.permission = permission])
                 EXCEPT !.prior = Prior("upCache", key)]
       IN  IF IsNil(c.db)
           THEN Step(r, staleError(c)) /\ UNCHANGED upCache
           ELSE IF LRUFound(upCache, key)
           THEN /\ upCache' = LRUGet(upCache, key)
                /\ Step(r, Return([c EXCEPT !.hitVer = LRUEntry(upCache, key).ver],
                                  "ok", NilErr, LRUEntry(upCache, key).val))
           ELSE Step(r, [c EXCEPT !.pc = "sem"]) /\ UNCHANGED upCache
    /\ UNCHANGED <<svcVars, semaphore, authCache, clientCertCache, tlsCh,
                   notifier, tlsHist, notifying, histVars, verdicts>>

\* s.semaphore.wait() and http.NewRequest in checkPermissionOnServer
checkPermissionOnServer_wait(r) ==
    /\ r.op = "checkPermission" /\ r.pc = "sem"
    /\ IF BadURL(r.db.permissionCheckURL)
       THEN /\ waitAndSignal
            /\ Step(r, Return(r, "error", "parse error", Bool(FALSE)))
       ELSE /\ wait
            /\ Step(r, [r EXCEPT !.pc = "call", !.nOut = r.nOut + 1])
    /\ UNCHANGED <<svcVars, cacheVars, tlsCh, notifier, tlsHist, notifying,
                   histVars, verdicts>>

\* Faulty variant: only an allow is cached
checkPermissionOnServer_Do_allowOnly(r, o) ==
    /\ r.op = "checkPermission" /\ r.pc = "call"
    /\ signal
    /\ LET key == userPermission(r.db, r.arg.user, r.arg.domain, r.arg.permission)
       IN  CASE o = "transport" ->
                  /\ Step(r, Return(r, "error", "transport error", Bool(FALSE)))
                  /\ UNCHANGED <<upCache, verdicts>>
             [] o \in {"200", "401"} ->
                  /\ upCache' = IF o = "200"
                                THEN LRUSet(upCache, key, Bool(TRUE),
                                            r.db.permissionsVersion, UpCacheSize)
                                ELSE upCache
                  /\ AddVerdict("upCache", key, Bool(o = "200"))
                  /\ Step(r, Return(r, "ok", NilErr, Bool(o = "200")))
             [] OTHER ->
                  /\ Step(r, Return(r, "error", "Unexpected return code", Bool(FALSE)))
                  /\ UNCHANGED <<upCache, verdicts>>
    /\ UNCHANGED <<svcVars, authCache, clientCertCache, tlsCh, notifier,
                   tlsHist, notifying, histVars>>

\* The answer o to s.httpClient.Do, the deferred signal(), and the rest of
\* checkPermission
checkPermissionOnServer_Do(r, o) ==
    /\ r.op = "checkPermission" /\ r.pc = "call"
    /\ signal
    /\ LET key == userPermission(r.db, r.arg.user, r.arg.domain, r.arg.permission)
       IN  CASE o = "transport" ->
                  /\ Step(r, Return(r, "error", "transport error", Bool(FALSE)))
                  /\ UNCHANGED <<upCache, verdicts>>
             [] o \in {"200", "401"} ->
                  /\ upCache' = LRUSet(upCache, key, Bool(o = "200"),
                                       r.db.permissionsVersion, UpCacheSize)
                  /\ AddVerdict("upCache", key, Bool(o = "200"))
                  /\ Step(r, Return(r, "ok", NilErr, Bool(o = "200")))
             [] OTHER ->
                  /\ Step(r, Return(r, "error", "Unexpected return code", Bool(FALSE)))
                  /\ UNCHANGED <<upCache, verdicts>>
    /\ UNCHANGED <<svcVars, authCache, clientCertCache, tlsCh, notifier,
                   tlsHist, notifying, histVars>>

----------------------------------------------------------------------------
(* VerifyPassword *)

\* len(user) > 0 && user[0] == '@', on the user names of the model
StartsWithAt(user) == user \in {"@", "@ns_server", "@cbq-engine"}

\* Faulty variant: no credentials are special
verifySpecialCreds_never(d, user, password) == FALSE

verifySpecialCreds(d, user, password) ==
    StartsWithAt(user) /\ password = d.specialPassword

userPassword(d, user, password) == <<d.authVersion, user, password>>

\* VerifyPassword from the return of fetchDB to the return of authCache.Get
VerifyPassword(r, user, password) ==
    /\ r.pc = "body"
    /\ LET key == userPassword(r.db, user, password)
           c == [Entered(r, "VerifyPassword",
                         [ZeroArg EXCEPT !.user = user, !.password = password])
                 EXCEPT !.prior = Prior("authCache", key)]
       IN  IF IsNil(c.db)
           THEN Step(r, staleError(c)) /\ UNCHANGED authCache
           ELSE IF verifySpecialCreds(c.db, user, password)
           THEN /\ Step(r, Return(c, "ok", NilErr, <<user, "admin", password>>))
                /\ UNCHANGED authCache
           ELSE IF LRUFound(authCache, key)
           THEN /\ authCache' = LRUGet(authCache, key)
                /\ Step(r, Return([c EXCEPT !.hitVer = LRUEntry(authCache, key).ver],
                                  "ok", NilErr,
                                  LRUEntry(authCache, key).val \o <<password>>))
           ELSE Step(r, [c EXCEPT !.pc = "fetch", !.ret = "vos"]) /\ UNCHANGED authCache
    /\ UNCHANGED <<svcVars, semaphore, upCache, clientCertCache, tlsCh,
                   notifier, tlsHist, notifying, histVars, verdicts>>

\* db := fetchDB(s) in VerifyOnServer
VerifyOnServer_fetch(r) ==
    /\ r.op = "VerifyPassword" /\ r.pc = "fetch"
    /\ Step(r, fetchDB(r))
    /\ callsUnchanged

\* VerifyOnServer from the return of its fetchDB to s.semaphore.wait().  The
\* test of authCheckURL reads s.db, not db, and without the lock.
VerifyOnServer(r) ==
    /\ r.op = "VerifyPassword" /\ r.pc = "vos"
    /\ Step(r, IF IsNil(r.db2) THEN staleError(r)
               ELSE IF IsNil(db)
               THEN Return(r, "panic", "nil pointer dereference", <<>>)
               ELSE IF db.authCheckURL = "" THEN Return(r, "error", ErrNoAuth, <<>>)
               ELSE [r EXCEPT !.pc = "sem"])
    /\ callsUnchanged

\* s.semaphore.wait() and http.NewRequest in VerifyOnServer
VerifyOnServer_wait(r) ==
    /\ r.op = "VerifyPassword" /\ r.pc = "sem"
    /\ IF BadURL(r.db2.authCheckURL)
       THEN /\ waitAndSignal
            /\ Step(r, Return(r, "panic", "parse error", <<>>))
       ELSE /\ wait
            /\ Step(r, [r EXCEPT !.pc = "call", !.nOut = r.nOut + 1])
    /\ UNCHANGED <<svcVars, cacheVars, tlsCh, notifier, tlsHist, notifying,
                   histVars, verdicts>>

\* Faulty variant: the identity is cached whatever its domain
VerifyOnServer_Do_cachesAll(r, o) ==
    /\ r.op = "VerifyPassword" /\ r.pc = "call"
    /\ signal
    /\ LET rv == executeReqAndGetCreds(o)
           key == userPassword(r.db, r.arg.user, r.arg.password)
       IN  IF rv[1] # NilErr
           THEN /\ Step(r, Return(r, "error", rv[1], <<>>))
                /\ UNCHANGED <<authCache, verdicts>>
           ELSE /\ authCache' = LRUSet(authCache, key, <<rv[2], rv[3]>>,
                                       r.db.authVersion, AuthCacheSize)
                /\ AddVerdict("authCache", key, <<rv[2], rv[3]>>)
                /\ Step(r, Return(r, "ok", NilErr, <<rv[2], rv[3], "">>))
    /\ UNCHANGED <<svcVars, upCache, clientCertCache, tlsCh, notifier,
                   tlsHist, notifying, histVars>>

\* The answer o to the outbound call, the deferred signal(), and the rest
\* of VerifyPassword.  The cache key carries the version of the
\* VerifyPassword's own db, the returned creds the db of VerifyOnServer.
VerifyOnServer_Do(r, o) ==
    /\ r.op = "VerifyPassword" /\ r.pc = "call"
    /\ signal
    /\ LET rv == executeReqAndGetCreds(o)
           key == userPassword(r.db, r.arg.user, r.arg.password)
       IN  IF rv[1] # NilErr
           THEN /\ Step(r, Return(r, "error", rv[1], <<>>))
                /\ UNCHANGED <<authCache, verdicts>>
           ELSE /\ authCache' = IF rv[3] \in {"admin", "local"}
                                THEN LRUSet(authCache, key, <<rv[2], rv[3]>>,
                                            r.db.authVersion, AuthCacheSize)
                                ELSE authCache
                /\ AddVerdict("authCache", key, <<rv[2], rv[3]>>)
                /\ Step(r, Return(r, "ok", NilErr, <<rv[2], rv[3], "">>))
    /\ UNCHANGED <<svcVars, upCache, clientCertCache, tlsCh, notifier,
                   tlsHist, notifying, histVars>>

----------------------------------------------------------------------------
(* MaybeGetCredsFromCert *)

\* md5 of cert.Raw, on the certificates of the model
md5(raw) ==
    CASE raw = "certA" -> "3f1c"
      [] raw = "certB" -> "a907"
      [] OTHER -> "d41d"

clienCertHash(d, raw) == <<md5(raw), d.clientCertAuthVersion>>

\* MaybeGetCredsFromCert from the return of fetchDB to s.semaphore.wait().
\* tls: req.TLS is not nil; cert: the raw leaf certificate, "" when
\* req.TLS.PeerCertificates is empty.
MaybeGetCredsFromCert(r, tls, cert) ==
    /\ r.pc = "body"
    /\ LET key == clienCertHash(r.db, cert)
           c == [Entered(r, "MaybeGetCredsFromCert",
                         [ZeroArg EXCEPT !.tls = tls, !.cert = cert])
                 EXCEPT !.prior = Prior("clientCertCache", key)]
           state == c.db.clientCertAuthState
       IN  IF IsNil(c.db)
           THEN Step(r, staleError(c)) /\ UNCHANGED clientCertCache
           ELSE IF ~tls \/ state \in {"disable", ""} \/ (state = "enable" /\ cert = "")
           THEN Step(r, Return(c, "none", NilErr, <<>>)) /\ UNCHANGED clientCertCache
           ELSE IF cert = ""
           THEN /\ Step(r, Return(c, "panic", "index out of range", <<>>))
                /\ UNCHANGED clientCertCache
           ELSE IF LRUFound(clientCertCache, key)
           THEN /\ clientCertCache' = LRUGet(clientCertCache, key)
                /\ Step(r, Return([c EXCEPT !.hitVer = LRUEntry(clientCertCache, key).ver],
                                  "ok", NilErr,
                                  LRUEntry(clientCertCache, key).val \o <<"">>))
           ELSE /\ Step(r, IF c.db.authCheckURL = ""
                           THEN Return(c, "error", ErrUserNotFound, <<>>)
                           ELSE [c EXCEPT !.pc = "sem"])
                /\ UNCHANGED clientCertCache
    /\ UNCHANGED <<svcVars, semaphore, upCache, authCache, tlsCh, notifier,
                   tlsHist, notifying, histVars, verdicts>>

\* s.semaphore.wait() and http.NewRequest in getUserIdentityFromCert
getUserIdentityFromCert_wait(r) ==
    /\ r.op = "MaybeGetCredsFromCert" /\ r.pc = "sem"
    /\ IF BadURL(r.db.extractUserFromCertURL)
       THEN /\ waitAndSignal
            /\ Step(r, Return(r, "error", ErrUserNotFound, <<>>))
       ELSE /\ wait
            /\ Step(r, [r EXCEPT !.pc = "call", !.nOut = r.nOut + 1])
    /\ UNCHANGED <<svcVars, cacheVars, tlsCh, notifier, tlsHist, notifying,
                   histVars, verdicts>>

\* Faulty variant: signal() is not deferred, and runs only when the outbound
\* call yields creds
getUserIdentityFromCert_Do_leak(r, o) ==
    /\ r.op = "MaybeGetCredsFromCert" /\ r.pc = "call"
    /\ LET rv == executeReqAndGetCreds(o)
           key == clienCertHash(r.db, r.arg.cert)
       IN  IF rv[1] # NilErr
           THEN /\ Step(r, Return(r, "error", ErrUserNotFound, <<>>))
                /\ UNCHANGED <<semaphore, clientCertCache, verdicts>>
           ELSE /\ signal
                /\ clientCertCache' = LRUSet(clientCertCache, key, <<rv[2], rv[3]>>,
                                             r.db.clientCertAuthVersion,
                                             ClientCertCacheSize)
                /\ AddVerdict("clientCertCache", key, <<rv[2], rv[3]>>)
                /\ Step(r, Return(r, "ok", NilErr, <<rv[2], rv[3], "">>))
    /\ UNCHANGED <<svcVars, upCache, authCache, tlsCh, notifier, tlsHist,
                   notifying, histVars>>

\* Faulty variant: a failure to resolve is cached as an empty identity
getUserIdentityFromCert_Do_cachesNotFound(r, o) ==
    /\ r.op = "MaybeGetCredsFromCert" /\ r.pc = "call"
    /\ signal
    /\ LET rv == executeReqAndGetCreds(o)
           key == clienCertHash(r.db, r.arg.cert)
       IN  /\ clientCertCache' = LRUSet(clientCertCache, key, <<rv[2], rv[3]>>,
                                        r.db.clientCertAuthVersion,
                                        ClientCertCacheSize)
           /\ AddVerdict("clientCertCache", key, <<rv[2], rv[3]>>)
           /\ Step(r, IF rv[1] # NilErr
                      THEN Return(r, "error", ErrUserNotFound, <<>>)
                      ELSE Return(r, "ok", NilErr, <<rv[2], rv[3], "">>))
    /\ UNCHANGED <<svcVars, upCache, authCache, tlsCh, notifier, tlsHist,
                   notifying, histVars>>

\* The answer o to the outbound call, the deferred signal(), and the rest
\* of MaybeGetCredsFromCert, which drops the error of the call
getUserIdentityFromCert_Do(r, o) ==
    /\ r.op = "MaybeGetCredsFromCert" /\ r.pc = "call"
    /\ signal
    /\ LET rv == executeReqAndGetCreds(o)
           key == clienCertHash(r.db, r.arg.cert)
       IN  IF rv[1] # NilErr
           THEN /\ Step(r, Return(r, "error", ErrUserNotFound, <<>>))
                /\ UNCHANGED <<clientCertCache, verdicts>>
           ELSE /\ clientCertCache' = LRUSet(clientCertCache, key, <<rv[2], rv[3]>>,
                                             r.db.clientCertAuthVersion,
                                             ClientCertCacheSize)
                /\ AddVerdict("clientCertCache", key, <<rv[2], rv[3]>>)
                /\ Step(r, Return(r, "ok", NilErr, <<rv[2], rv[3], "">>))
    /\ UNCHANGED <<svcVars, upCache, authCache, tlsCh, notifier, tlsHist,
                   notifying, histVars>>

----------------------------------------------------------------------------
(* Construction *)

\* No initialization call yet. checked: calls that found Default nil and a
\* well-formed mgmtHostPort and have not made their Svc; made: calls between
\* newSvc and startDefault; trues, falses: calls that returned true, false;
\* services: the Svcs made by newSvc; sitters: the goroutines running
\* runRPCForSvc; loaded: the package's init() has run; errs: calls that
\* returned an error
ZeroInits ==
    [loaded |-> FALSE, checked |-> 0, made |-> 0, trues |-> 0, falses |-> 0,
     errs |-> 0, services |-> 0, sitters |-> 0]

\* revrpc.BabysitService running the service. pc: "run" while the service
\* runs, "policy" inside cbauthPolicy, "stopped" once the policy gave up;
\* err: the error being handled; at: nResets when cbauthPolicy was entered;
\* reports, consulted: the calls of cbauthPolicy and of defPolicy
ZeroSitter ==
    [pc |-> "run", err |-> NilErr, at |-> 0, reports |-> 0, consulted |-> 0]

\* The Svc returned by NewSVCForTest(period, err); period 0 or 1
NewSVCForTest(period, err) ==
    /\ err # NilErr
    /\ db = NilDB
    /\ staleErr = err
    /\ freshChan = (period # 0)
    /\ chanClosed = FALSE
    /\ timer = IF period # 0 THEN "armed" ELSE "none"
    /\ semaphore = 0
    /\ upCache = <<>> /\ authCache = <<>> /\ clientCertCache = <<>>
    /\ tlsCh = 0
    /\ notifying = {}
    /\ notifier = NewTLSNotifier
    /\ tlsHist = ZeroTLSHist
    /\ calls = EmptyBag
    /\ returned = NoCall
    /\ nUpdates = 0 /\ nResets = 0 /\ retMax = 0 /\ lastResetAt = -1
    /\ verdicts = {} /\ stale = {}
    /\ arrivals = TRUE
    /\ lru = ZeroLRU
    /\ Default = 0 /\ inits = ZeroInits /\ sitter = ZeroSitter

\* cbauth's newSvc: NewSVC(waitBeforeStale, &DBStaleError{})
Init == \E period \in {0, 1} : NewSVCForTest(period, InitErr)

NCalls == BagCardinality(calls)

----------------------------------------------------------------------------
(* The Cache messages the updates deliver *)

LocalNode ==
    [Host |-> "127.0.0.1", User |-> "_admin", Password |-> "asdasd",
     Ports |-> {11210}, Local |-> TRUE]

OtherNode ==
    [Host |-> "fc00:0::10", User |-> "_admin", Password |-> "foobar",
     Ports |-> {11210, 8091}, Local |-> FALSE]

\* A Cache with version stamps pv, av and cv
BaseCache(pv, av, cv) ==
    [ZeroCache EXCEPT !.Nodes = <<OtherNode, LocalNode>>,
                      !.AuthCheckURL = "http://127.0.0.1:9000/_cbauth",
                      !.PermissionCheckURL = "http://127.0.0.1:9000/_permissions",
                      !.SpecialUser = "@component",
                      !.PermissionsVersion = pv,
                      !.AuthVersion = av,
                      !.ClientCertAuthVersion = cv,
                      !.ExtractUserFromCertURL = "http://127.0.0.1:9000/_cert",
                      !.ClientCertAuthState = "mandatory",
                      !.TLSConfig = [ZeroTLSImport EXCEPT !.MinTLSVersion = "TLSv1.2"]]

----------------------------------------------------------------------------
(* Spec: updates, resets and the grace timeout against every operation.    *)
(* The authority is unreachable.                                           *)

FreshCaches ==
    {BaseCache("v1", "v1", "v1")}

Down == [status |-> "transport", id |-> <<"", "">>]

Next ==
    \/ NCalls < MaxCalls /\ Call
    \/ \E r \in BagToSet(calls) : fetchDB_wake(r)
    \/ \E r \in BagToSet(calls) : GetTLSConfig(r)
    \/ \E r \in BagToSet(calls) : GetClientCertAuthType(r)
    \/ \E r \in BagToSet(calls) : GetCreds(r, "fc00::10", 8091)
    \/ \E r \in BagToSet(calls) :
          checkPermission(r, "bob", "local", "cluster.bucket[default]!read")
    \/ \E r \in BagToSet(calls) : checkPermissionOnServer_wait(r)
    \/ \E r \in BagToSet(calls) : checkPermissionOnServer_Do(r, "transport")
    \/ \E r \in BagToSet(calls) : VerifyPassword(r, "bob", "hunter2")
    \/ \E r \in BagToSet(calls) : VerifyOnServer_fetch(r)
    \/ \E r \in BagToSet(calls) : VerifyOnServer(r)
    \/ \E r \in BagToSet(calls) : VerifyOnServer_wait(r)
    \/ \E r \in BagToSet(calls) : VerifyOnServer_Do(r, Down)
    \/ \E r \in BagToSet(calls) : MaybeGetCredsFromCert(r, TRUE, "certA")
    \/ \E r \in BagToSet(calls) : getUserIdentityFromCert_wait(r)
    \/ \E r \in BagToSet(calls) : getUserIdentityFromCert_Do(r, Down)
    \/ \E c \in FreshCaches : nUpdates < MaxUpdates /\ UpdateDB(c)
    \/ \E id \in notifying : notifyTLSChange(id)
    \/ \E e \in ResetErrs : nResets < MaxResets /\ ResetSvc(e)
    \/ Timeout

Spec == Init /\ [][Next]_vars

----------------------------------------------------------------------------
(* Properties of Spec *)

InFlight == BagToSet(calls)

\* An UpdateDB, a ResetSvc or the grace timeout has run
Event == nUpdates > 0 \/ nResets > 0 \/ timer = "fired"

Seen(d, m) ==
    IF IsNil(d) THEN m = 0 \/ lastResetAt >= m ELSE d.id >= m

\* C2: UpdateDB is possible in every state and leaves its credsDB as s.db
\* (s.db is the latest credsDB installed, or nil after a later ResetSvc);
\* a fetchDB that starts after an UpdateDB has returned yields the credsDB
\* of that UpdateDB or of a later one, or nil if a ResetSvc ran after it,
\* and never an earlier credsDB.
C2_Linearizable ==
    /\ nUpdates < MaxUpdates => ENABLED (\E c \in FreshCaches : UpdateDB(c))
    /\ IF IsNil(db) THEN lastResetAt = nUpdates \/ nUpdates = 0
       ELSE db.id = nUpdates
    /\ retMax <= nUpdates
    /\ \A r \in InFlight :
          /\ r.pc = "body" => Seen(r.db, r.m)
          /\ r.pc = "vos" => Seen(r.db2, r.m)

\* A fetchDB that started after the first UpdateDB returned, and while the
\* second had installed its credsDB but not returned, has yielded the second
C2_Witness ==
    \E r \in InFlight :
        r.pc = "body" /\ r.m = 1 /\ r.db.id = 2 /\ notifying = {2}

C4_ConstructionError ==
    /\ nResets = 0 => staleErr = InitErr
    /\ (returned.pc = "done" /\ nUpdates = 0 /\ nResets = 0)
          => /\ returned.kind = "error"
             /\ returned.err = InitErr
             /\ returned.val = <<>>
             /\ timer = "none" => ~returned.blocked
             /\ timer # "none" => timer = "fired"

\* A call that blocked until the grace timer fired has returned, with no
\* UpdateDB or ResetSvc so far
C4_Witness ==
    /\ returned.pc = "done" /\ returned.blocked
    /\ returned.err = InitErr
    /\ nUpdates = 0 /\ nResets = 0 /\ timer = "fired"

\* C5: a call waits on the fresh channel only if its fetchDB started before
\* the first UpdateDB, ResetSvc or grace timeout; after that event the Svc
\* has no fresh channel, whether it holds a credsDB or not.
C5_BlocksOnlyInGrace ==
    /\ \A r \in InFlight : r.pc = "wait" => r.early
    /\ Event => ~freshChan

\* After a ResetSvc, with the grace timer still armed, a fetchDB has returned
\* nil without blocking
C5_Witness ==
    \E r \in InFlight :
        /\ r.pc = "body" /\ IsNil(r.db) /\ ~r.blocked
        /\ nResets > 0 /\ timer = "armed"

----------------------------------------------------------------------------
(* SpecThrottle: more callers than the semaphore has slots.  One update     *)
(* delivers the credsDB; the callers are permission checks and up to       *)
(* MaxThrottleOther password verifications and certificate extractions at  *)
(* a time.  The environment may stop sending callers (NoMoreCalls).        *)

ThrottleInit == NewSVCForTest(0, InitErr)

ThrottleCreds ==
    {o \in CredsOutcomes : o.status = "200" => o.id = <<"bob", "local">>}

\* The second Cache carries URLs that http.NewRequest rejects
ThrottleCaches ==
    {BaseCache("v1", "v1", "v1"),
     [BaseCache("v1", "v1", "v1") EXCEPT !.AuthCheckURL = "%zz",
                                         !.PermissionCheckURL = "%zz",
                                         !.ExtractUserFromCertURL = "%zz"]}

\* The number of calls of op in flight
OpCount(op) ==
    BagCardinality([r \in {x \in BagToSet(calls) : x.op = op} |-> calls[r]])

\* The number of calls whose outbound call is in flight
AtCall ==
    BagCardinality([r \in {x \in BagToSet(calls) : x.pc = "call"} |-> calls[r]])

NoMoreCalls ==
    /\ arrivals
    /\ arrivals' = FALSE
    /\ UNCHANGED extVars
    /\ noCalls
    /\ UNCHANGED <<svcVars, semaphore, cacheVars, tlsCh, notifier, tlsHist,
                   notifying, nUpdates, nResets, retMax, lastResetAt,
                   verdicts, stale>>

\* Callers arrive once the update has returned
ThrottleArrive == arrivals /\ retMax = 1 /\ NCalls < MaxThrottleCalls /\ Call
ThrottleUpdate == \E c \in ThrottleCaches : nUpdates = 0 /\ UpdateDB(c)
ThrottleNotify == \E id \in notifying : notifyTLSChange(id)
ThrottlePerm ==
    \E r \in BagToSet(calls) :
        checkPermission(r, "bob", "local", "cluster.bucket[default]!read")
ThrottlePermWait == \E r \in BagToSet(calls) : checkPermissionOnServer_wait(r)
ThrottlePermDo ==
    \E r \in BagToSet(calls), o \in {"200", "transport"} :
        checkPermissionOnServer_Do(r, o)
ThrottleAuth ==
    \E r \in BagToSet(calls) :
        OpCount("VerifyPassword") < MaxThrottleOther /\ VerifyPassword(r, "bob", "hunter2")
ThrottleAuthFetch == \E r \in BagToSet(calls) : VerifyOnServer_fetch(r)
ThrottleAuthCheck == \E r \in BagToSet(calls) : VerifyOnServer(r)
ThrottleAuthWait == \E r \in BagToSet(calls) : VerifyOnServer_wait(r)
ThrottleAuthDo ==
    \E r \in BagToSet(calls), o \in ThrottleCreds : VerifyOnServer_Do(r, o)
ThrottleCert ==
    \E r \in BagToSet(calls) :
        OpCount("MaybeGetCredsFromCert") < MaxThrottleOther
            /\ MaybeGetCredsFromCert(r, TRUE, "certA")
ThrottleCertWait == \E r \in BagToSet(calls) : getUserIdentityFromCert_wait(r)
ThrottleCertDo ==
    \E r \in BagToSet(calls), o \in ThrottleCreds : getUserIdentityFromCert_Do(r, o)

ThrottleNext ==
    \/ ThrottleArrive
    \/ NoMoreCalls
    \/ ThrottleUpdate
    \/ ThrottleNotify
    \/ ThrottlePerm
    \/ ThrottlePermWait
    \/ ThrottlePermDo
    \/ ThrottleAuth
    \/ ThrottleAuthFetch
    \/ ThrottleAuthCheck
    \/ ThrottleAuthWait
    \/ ThrottleAuthDo
    \/ ThrottleCert
    \/ ThrottleCertWait
    \/ ThrottleCertDo

\* A step of a call in flight
ThrottleStep ==
    \/ ThrottlePerm \/ ThrottlePermWait \/ ThrottlePermDo
    \/ ThrottleAuth \/ ThrottleAuthFetch \/ ThrottleAuthCheck
    \/ ThrottleAuthWait \/ ThrottleAuthDo
    \/ ThrottleCert \/ ThrottleCertWait \/ ThrottleCertDo

\* The goroutines of the calls keep running, and every outbound call is
\* answered or fails: while some call can take a step, one does
ThrottleFairness == WF_vars(ThrottleStep)

SpecThrottle == ThrottleInit /\ [][ThrottleNext]_vars

SpecThrottleLive == SpecThrottle /\ ThrottleFairness

----------------------------------------------------------------------------
(* Properties of SpecThrottle *)

\* C6: at every instant at most SemCapacity outbound calls are in flight,
\* counting those of checkPermission, VerifyPassword and
\* MaybeGetCredsFromCert together.
C6_AtMostCapacity == AtCall <= SemCapacity

\* Every slot is taken, by outbound calls of all three operations, and one
\* more caller waits for a slot
C6_Witness ==
    /\ AtCall = SemCapacity
    /\ NCalls = MaxThrottleCalls
    /\ \E r \in InFlight : r.pc = "sem"
    /\ \A op \in {"checkPermission", "VerifyPassword", "MaybeGetCredsFromCert"} :
          \E r \in InFlight : r.pc = "call" /\ r.op = op

\* C7: the semaphore holds exactly one token per outbound call in flight,
\* whichever way the earlier calls ended, and once no further callers
\* arrive every caller in flight returns, however many there are.
C7_SlotsReleased ==
    /\ [](semaphore = AtCall)
    /\ (~arrivals) ~> (calls = EmptyBag)

\* A call has just left on an error path of its outbound call, while the
\* last callers, more than the capacity, were all in flight and one of them
\* waited for a slot
C7_Witness ==
    /\ ~arrivals
    /\ returned.pc = "done" /\ returned.kind = "error" /\ returned.nOut = 1
    /\ NCalls = MaxThrottleCalls - 1
    /\ semaphore = SemCapacity - 1
    /\ \E r \in InFlight : r.pc = "sem"

----------------------------------------------------------------------------
(* The caches under updates that change the version stamps and bring an    *)
(* earlier stamp back.                                                      *)

CacheInit == NewSVCForTest(0, InitErr)

CacheCaches == {BaseCache(v, v, v) : v \in Versions}

CacheArrive == NCalls < MaxCacheCalls /\ Call
CacheUpdate == \E c \in CacheCaches : nUpdates < MaxCacheUpdates /\ UpdateDB(c)
CacheNotify == \E id \in notifying : notifyTLSChange(id)
CachePerm ==
    \E r \in BagToSet(calls) :
        checkPermission(r, "bob", "local", "cluster.bucket[default]!read")
CachePermWait == \E r \in BagToSet(calls) : checkPermissionOnServer_wait(r)
CachePermDo ==
    \E r \in BagToSet(calls), o \in PermOutcomes : checkPermissionOnServer_Do(r, o)
CacheAuth == \E r \in BagToSet(calls) : VerifyPassword(r, "bob", "hunter2")
CacheAuthFetch == \E r \in BagToSet(calls) : VerifyOnServer_fetch(r)
CacheAuthCheck == \E r \in BagToSet(calls) : VerifyOnServer(r)
CacheAuthWait == \E r \in BagToSet(calls) : VerifyOnServer_wait(r)
CacheAuthDo ==
    \E r \in BagToSet(calls), o \in CredsOutcomes : VerifyOnServer_Do(r, o)
CacheCert == \E r \in BagToSet(calls) : MaybeGetCredsFromCert(r, TRUE, "certA")
CacheCertWait == \E r \in BagToSet(calls) : getUserIdentityFromCert_wait(r)
CacheCertDo ==
    \E r \in BagToSet(calls), o \in CredsOutcomes : getUserIdentityFromCert_Do(r, o)

\* SpecPerm: permission checks only, with every answer of the authority
PermNext ==
    \/ CacheArrive
    \/ CacheUpdate
    \/ CacheNotify
    \/ CachePerm
    \/ CachePermWait
    \/ CachePermDo

SpecPerm == CacheInit /\ [][PermNext]_vars

\* SpecAuth: password verifications only, with every answer of the authority
AuthUpdate == \E c \in CacheCaches : nUpdates < MaxAuthUpdates /\ UpdateDB(c)

AuthNext ==
    \/ CacheArrive
    \/ AuthUpdate
    \/ CacheNotify
    \/ CacheAuth
    \/ CacheAuthFetch
    \/ CacheAuthCheck
    \/ CacheAuthWait
    \/ CacheAuthDo

SpecAuth == CacheInit /\ [][AuthNext]_vars

\* SpecCache: the three operations together; the authority is down or
\* answers with one verdict
Granted == [status |-> "200", id |-> <<"bob", "local">>]

StampPermDo ==
    \E r \in BagToSet(calls), o \in {"200", "transport"} :
        checkPermissionOnServer_Do(r, o)
StampAuthDo ==
    \E r \in BagToSet(calls), o \in {Granted, Down} : VerifyOnServer_Do(r, o)
StampCertDo ==
    \E r \in BagToSet(calls), o \in {Granted, Down} : getUserIdentityFromCert_Do(r, o)

StampArrive == NCalls < MaxStampCalls /\ Call

CacheNext ==
    \/ StampArrive
    \/ CacheUpdate
    \/ CacheNotify
    \/ CachePerm
    \/ CachePermWait
    \/ StampPermDo
    \/ CacheAuth
    \/ CacheAuthFetch
    \/ CacheAuthCheck
    \/ CacheAuthWait
    \/ StampAuthDo
    \/ CacheCert
    \/ CacheCertWait
    \/ StampCertDo

SpecCache == CacheInit /\ [][CacheNext]_vars

----------------------------------------------------------------------------
(* Properties of SpecPerm, SpecCache and SpecAuth *)

Done(op) == returned.pc = "done" /\ returned.op = op

\* C8 as stated: once the authority has given a verdict for the key of a
\* check, the check issues no outbound call and returns that verdict.
C8_SameVerdict ==
    (Done("checkPermission") /\ returned.prior # {})
        => /\ returned.nOut = 0
           /\ \A v \in returned.prior : returned.val = v.val

\* C8, amended: once a check of (V, user, domain, permission) has completed
\* with a verdict of the authority, allow or deny, a check that looks the
\* same key up issues no outbound call and returns a verdict the authority
\* gave for that key: the one stored last, which is the first check's unless
\* a concurrent identical check that missed too has stored another since.
\* Every cached verdict is one the authority gave for its key.
C8_CachedVerdict ==
    /\ (Done("checkPermission") /\ returned.prior # {})
          => /\ returned.nOut = 0
             /\ returned.kind = "ok"
             /\ returned.hitVer = returned.db.permissionsVersion
             /\ \E v \in returned.prior : returned.val = v.val
             /\ \E i \in 1..Len(upCache) :
                   /\ upCache[i].key = userPermission(returned.db, returned.arg.user,
                                                      returned.arg.domain,
                                                      returned.arg.permission)
                   /\ upCache[i].val = returned.val
             /\ Cardinality(returned.prior) = 1
                   => \A v \in returned.prior : returned.val = v.val
    /\ \A i \in 1..Len(upCache) :
          [cache |-> "upCache", key |-> upCache[i].key, val |-> upCache[i].val]
              \in verdicts

\* A check answered deny from the cache, after two concurrent checks of the
\* same key got an allow and a deny
C8_Witness ==
    /\ Done("checkPermission")
    /\ returned.nOut = 0 /\ returned.val = Bool(FALSE)
    /\ Cardinality(returned.prior) = 2

CacheOf(op) ==
    CASE op = "checkPermission" -> "upCache"
      [] op = "VerifyPassword" -> "authCache"
      [] OTHER -> "clientCertCache"

\* The version stamp in the cache key of call r
Stamp(r) ==
    CASE r.op = "checkPermission" -> r.db.permissionsVersion
      [] r.op = "VerifyPassword" -> r.db.authVersion
      [] OTHER -> r.db.clientCertAuthVersion

----------------------------------------------------------------------------
(* SpecSpecial: password verifications with the credentials of services    *)
(* and of users, on snapshots whose first local node differs               *)

\* The second Cache has another first local node, hence another special
\* password
SpecialCaches ==
    {BaseCache("v1", "v1", "v1"),
     [BaseCache("v2", "v2", "v2") EXCEPT
         !.Nodes = <<[OtherNode EXCEPT !.Local = TRUE], LocalNode>>]}

AdminOK == [status |-> "200", id |-> <<"Administrator", "admin">>]

SpecialArrive == NCalls < MaxSpecialCalls /\ Call
SpecialUpdate ==
    \E c \in SpecialCaches : nUpdates < MaxSpecialUpdates /\ UpdateDB(c)
SpecialAuth ==
    \E r \in BagToSet(calls), user \in {"@ns_server", "bob"},
       password \in {"asdasd", "foobar"} : VerifyPassword(r, user, password)
SpecialAuthDo ==
    \E r \in BagToSet(calls), o \in {AdminOK, Down} : VerifyOnServer_Do(r, o)

SpecialNext ==
    \/ SpecialArrive
    \/ SpecialUpdate
    \/ CacheNotify
    \/ SpecialAuth
    \/ CacheAuthFetch
    \/ CacheAuthCheck
    \/ CacheAuthWait
    \/ SpecialAuthDo

SpecSpecial == CacheInit /\ [][SpecialNext]_vars

\* The call r carries a user that begins with '@' and the special password
\* of the credsDB it fetched
IsSpecial(r) ==
    /\ ~IsNil(r.db)
    /\ StartsWithAt(r.arg.user)
    /\ r.arg.password = r.db.specialPassword

\* C11: a VerifyPassword whose user begins with '@' and whose password is
\* the special password of the credsDB it fetched returns creds of domain
\* admin for that user, without an outbound call; it never waits for or
\* holds a semaphore slot, and the password cache never holds an entry for
\* such credentials.
C11_SpecialCredsLocal ==
    /\ (Done("VerifyPassword") /\ IsSpecial(returned))
          => /\ returned.kind = "ok"
             /\ returned.val = <<returned.arg.user, "admin", returned.arg.password>>
             /\ returned.nOut = 0
             /\ returned.hitVer = ""
    /\ \A r \in InFlight : r.op = "VerifyPassword" => ~IsSpecial(r)
    /\ \A i \in 1..Len(authCache) :
          \A c \in SpecialCaches :
              ~(/\ c.AuthVersion = authCache[i].ver
                /\ StartsWithAt(authCache[i].key[2])
                /\ authCache[i].key[3] = localPassword(c.Nodes))

\* A service has been verified by the special password of the second
\* credsDB, while the password cache holds an entry the authority resolved
\* and a slot is taken by another call
C11_Witness ==
    /\ Done("VerifyPassword") /\ IsSpecial(returned)
    /\ returned.arg.password = "foobar"
    /\ returned.db.id = 2
    /\ Len(authCache) > 0
    /\ semaphore = 1

----------------------------------------------------------------------------
(* SpecCert: certificate identity extraction against an authority that     *)
(* resolves one certificate and not the other                              *)

\* Two versions of the certificate mappings, a Cache without the
\* verification endpoint and a Cache whose extraction URL http.NewRequest
\* rejects
CertCaches ==
    {BaseCache("v1", "v1", "v1"),
     BaseCache("v2", "v2", "v2"),
     [BaseCache("v1", "v1", "v1") EXCEPT !.AuthCheckURL = ""],
     [BaseCache("v2", "v2", "v2") EXCEPT !.ExtractUserFromCertURL = "%zz"]}

\* The identity the authority maps certA to; it maps certB to none
Resolvable(cert) == cert = "certA"
CertIdentity == <<"bob", "local">>

\* The answers of the extraction endpoint for cert
CertAnswers(cert) ==
    IF Resolvable(cert)
    THEN {[status |-> "200", id |-> CertIdentity]}
    ELSE [status : {"401", "500", "transport", "malformed"}, id : {<<"", "">>}]

CertArrive == NCalls < MaxCertCalls /\ Call
CertUpdate == \E c \in CertCaches : nUpdates < MaxCertUpdates /\ UpdateDB(c)
CertBody ==
    \E r \in BagToSet(calls), cert \in {"certA", "certB"} :
        MaybeGetCredsFromCert(r, TRUE, cert)
CertDo ==
    \E r \in BagToSet(calls), o \in CredsOutcomes :
        o \in CertAnswers(r.arg.cert) /\ getUserIdentityFromCert_Do(r, o)

CertNext ==
    \/ CertArrive
    \/ CertUpdate
    \/ CacheNotify
    \/ CertBody
    \/ CacheCertWait
    \/ CertDo

SpecCert == CacheInit /\ [][CertNext]_vars

\* The returned extraction ran on a snapshot, with a peer certificate and
\* client certificate authentication not disabled
Extracted ==
    /\ Done("MaybeGetCredsFromCert")
    /\ ~IsNil(returned.db)
    /\ returned.arg.tls /\ returned.arg.cert # ""
    /\ returned.db.clientCertAuthState \notin {"disable", ""}

\* The clientCertCache has an entry under (hash of cert, the client cert
\* auth version of d)
CertCached(d, cert) ==
    \E i \in 1..Len(clientCertCache) :
        clientCertCache[i].key = <<md5(cert), d.clientCertAuthVersion>>

\* No entry of the clientCertCache is for a certificate the authority does
\* not resolve, and every entry holds the identity of its certificate
OnlyResolved ==
    \A i \in 1..Len(clientCertCache) :
        /\ clientCertCache[i].key[1] = md5("certA")
        /\ clientCertCache[i].val = CertIdentity

\* C12 as stated: an extraction of an unresolvable certificate always
\* returns ErrUserNotFound after one outbound call; the first extraction of
\* a resolvable certificate under a version makes one outbound call and
\* caches the identity, the later ones return it without outbound call.
C12_AlwaysAsksAuthority ==
    /\ OnlyResolved
    /\ Extracted =>
        IF ~Resolvable(returned.arg.cert)
        THEN /\ returned.kind = "error" /\ returned.err = ErrUserNotFound
             /\ returned.nOut = 1
        ELSE /\ returned.kind = "ok"
             /\ returned.val = CertIdentity \o <<"">>
             /\ CertCached(returned.db, returned.arg.cert)
             /\ returned.nOut = (IF returned.prior = {} THEN 1 ELSE 0)


\* The snapshot of the call r names a verification endpoint and an
\* extraction URL that http.NewRequest accepts, so a miss asks the authority
AsksAuthority(r) ==
    r.db.authCheckURL # "" /\ ~BadURL(r.db.extractUserFromCertURL)

\* C12: no failure to resolve is ever cached. An extraction that finds the
\* identity cached under (client cert auth version, hash) returns it
\* without outbound call. One that misses returns ErrUserNotFound without
\* outbound call when its snapshot has no verification endpoint or a
\* malformed extraction URL; otherwise it makes one outbound call and
\* returns ErrUserNotFound for an unresolvable certificate, or caches and
\* returns the identity of a resolvable one.
C12_NegativeNeverCached ==
    /\ OnlyResolved
    /\ Extracted =>
        IF returned.prior # {}
        THEN /\ returned.kind = "ok"
             /\ returned.val = CertIdentity \o <<"">>
             /\ Resolvable(returned.arg.cert)
             /\ returned.nOut = 0
        ELSE IF ~AsksAuthority(returned)
        THEN /\ returned.kind = "error" /\ returned.err = ErrUserNotFound
             /\ returned.nOut = 0
        ELSE IF ~Resolvable(returned.arg.cert)
        THEN /\ returned.kind = "error" /\ returned.err = ErrUserNotFound
             /\ returned.nOut = 1
        ELSE /\ returned.kind = "ok"
             /\ returned.val = CertIdentity \o <<"">>
             /\ CertCached(returned.db, returned.arg.cert)
             /\ returned.nOut = 1

\* An extraction of the resolvable certificate has returned the cached
\* identity without outbound call, while the outbound call of an
\* extraction of the unresolvable one is under way
C12_Witness ==
    /\ Extracted
    /\ Resolvable(returned.arg.cert)
    /\ returned.prior # {} /\ returned.nOut = 0
    /\ \E r \in InFlight :
          /\ r.op = "MaybeGetCredsFromCert" /\ r.pc = "call"
          /\ ~Resolvable(r.arg.cert)

----------------------------------------------------------------------------
(* SpecMode: certificate identity extraction on plain and TLS connections, *)
(* with and without a peer certificate, in every client cert auth mode     *)

ClientCertAuthStates == {"", "disable", "enable", "mandatory"}

ModeCaches ==
    {[BaseCache("v1", "v1", "v1") EXCEPT !.ClientCertAuthState = st] :
        st \in ClientCertAuthStates}

\* req.TLS is nil; req.TLS has no peer certificate; req.TLS has the leaf
\* certificate certA
Connections == {<<FALSE, "">>, <<TRUE, "">>, <<TRUE, "certA">>}

ModeUpdate == \E c \in ModeCaches : nUpdates < MaxCertUpdates /\ UpdateDB(c)
ModeBody ==
    \E r \in BagToSet(calls), conn \in Connections :
        MaybeGetCredsFromCert(r, conn[1], conn[2])

ModeNext ==
    \/ CertArrive
    \/ ModeUpdate
    \/ CacheNotify
    \/ ModeBody
    \/ CacheCertWait
    \/ CertDo

SpecMode == CacheInit /\ [][ModeNext]_vars

\* C13: an extraction that runs on a snapshot, for a connection without
\* peer certificate, returns no identity and no error in every client cert
\* auth mode, on TLS and plain connections, without fault and without
\* outbound call.
C13_NoCertNoOp ==
    (/\ Done("MaybeGetCredsFromCert")
     /\ ~IsNil(returned.db)
     /\ returned.arg.cert = "")
        => /\ returned.kind = "none"
           /\ returned.nOut = 0

----------------------------------------------------------------------------
(* SpecFail: the three verification operations against an authority whose  *)
(* every answer is a transport or protocol error                           *)

\* A status other than 200 and 401, a connection failure, a malformed body
FailedCreds ==
    [status : {"500", "transport", "malformed"}, id : {<<"", "">>}]
FailedPerm == {"500", "transport"}

FailPermDo ==
    \E r \in BagToSet(calls), o \in FailedPerm : checkPermissionOnServer_Do(r, o)
FailAuthDo ==
    \E r \in BagToSet(calls), o \in FailedCreds : VerifyOnServer_Do(r, o)
FailCertDo ==
    \E r \in BagToSet(calls), o \in FailedCreds : getUserIdentityFromCert_Do(r, o)

FailNext ==
    \/ CacheArrive
    \/ CacheUpdate
    \/ CacheNotify
    \/ CachePerm
    \/ CachePermWait
    \/ FailPermDo
    \/ CacheAuth
    \/ CacheAuthFetch
    \/ CacheAuthCheck
    \/ CacheAuthWait
    \/ FailAuthDo
    \/ CacheCert
    \/ CacheCertWait
    \/ FailCertDo

SpecFail == CacheInit /\ [][FailNext]_vars

\* C14: a verification whose outbound call ended in a transport or
\* protocol error returns an error other than ErrNoAuth and
\* ErrUserNotFound, whichever of the three operations it is, and no cache
\* receives an entry.
C14_ErrorsPropagated ==
    /\ upCache = <<>> /\ authCache = <<>> /\ clientCertCache = <<>>
    /\ (returned.pc = "done" /\ returned.nOut > 0)
          => /\ returned.kind = "error"
             /\ returned.err \notin {ErrNoAuth, ErrUserNotFound}

----------------------------------------------------------------------------
(* SpecNotifier: updates that change the TLS settings or leave them alone, *)
(* resets, registrations, and the loop of the tlsNotifier with a callback  *)
(* that succeeds or fails                                                  *)

\* Two Caches with the same TLS settings and different versions, and two
\* that change the client cert auth mode or the minimum TLS version
NotifierCaches ==
    {BaseCache("v1", "v1", "v1"),
     BaseCache("v2", "v2", "v2"),
     [BaseCache("v1", "v1", "v1") EXCEPT !.ClientCertAuthState = "enable"],
     [BaseCache("v1", "v1", "v1") EXCEPT
         !.TLSConfig = [ZeroTLSImport EXCEPT !.MinTLSVersion = "TLSv1.1"]]}

NotifierUpdate ==
    \E c \in NotifierCaches : nUpdates < MaxNotifierUpdates /\ UpdateDB(c)
NotifierNotify == \E id \in notifying : notifyTLSChange(id)
NotifierReset == nResets < MaxNotifierResets /\ ResetSvc("DBStaleError{e1}")
NotifierRegister ==
    \E cb \in {1, 2} : tlsHist.regs < MaxRegistrations /\ registerCallback(cb)
CallbackOK == callback(NilErr)
CallbackFail == tlsHist.failed < MaxFailures /\ callback("callback failed")

NotifierNext ==
    \/ NotifierUpdate
    \/ NotifierNotify
    \/ NotifierReset
    \/ NotifierRegister
    \/ RegisterTLSRefreshCallback_return
    \/ loop_ch
    \/ loop_retry
    \/ maybeExecuteCallback
    \/ CallbackOK
    \/ CallbackFail

SpecNotifier == CacheInit /\ [][NotifierNext]_vars


\* The loop runs, the timer of a retry expires and the callback returns;
\* an UpdateDB that has released s.l goes on to notifyTLSChange
LoopStep ==
    \/ loop_ch
    \/ loop_retry
    \/ maybeExecuteCallback
    \/ CallbackOK
    \/ CallbackFail

NotifierFairness == WF_vars(LoopStep) /\ WF_vars(NotifierNotify)

SpecNotifierLive == SpecNotifier /\ NotifierFairness

\* C15 as stated: however many notifications are requested before the
\* callback starts to run, and none after, a callback that does not fail is
\* invoked at most once.
C15_SingleInvocation ==
    (tlsHist.failed = 0 /\ tlsHist.sent = tlsHist.sentAtRun)
        => tlsHist.invoked <= 1

\* All notifications requested since the latest receive from n.ch are one
\* queued notification; every invocation follows a wake-up of the loop;
\* the notifications requested before the first invocation started cause
\* at most two invocations of a callback that does not fail.
Coalesced ==
    /\ tlsCh = (IF tlsHist.sent > tlsHist.sentAtRecv THEN 1 ELSE 0)
    /\ tlsHist.invoked <= tlsHist.recv + tlsHist.retried
    /\ tlsHist.retried <= tlsHist.failed
    /\ (tlsHist.failed = 0 /\ tlsHist.sent = tlsHist.sentAtRun)
          => tlsHist.invoked <= 2

\* C15: notifications requested while one is queued are coalesced into it,
\* and a queued notification leads to an invocation of the registered
\* callback: one invocation for all those requested before the loop took
\* the notification from the channel, a second one when a notification is
\* requested after that.
C15_Coalesced ==
    /\ []Coalesced
    /\ \A k \in 0..(MaxNotifierUpdates + MaxRegistrations + MaxFailures) :
          (tlsCh = 1 /\ notifier.callback # 0 /\ tlsHist.invoked = k)
              ~> (tlsHist.invoked > k)

\* The notification of the registration and those of two updates have been
\* delivered by one receive and one invocation
C15_Witness ==
    /\ tlsHist.sent = 3 /\ tlsHist.recv = 1 /\ tlsHist.invoked = 1
    /\ nUpdates = 2 /\ notifying = {}
    /\ tlsCh = 0 /\ notifier.pc = "select" /\ ~notifier.retry


\* A step of UpdateDB that installs a credsDB with the TLS fields of the
\* credsDB of the update before it
SameTLSUpdate ==
    /\ nUpdates' = nUpdates + 1
    /\ TLSFields(db') = tlsHist.lastTLS

\* The step schedules no notification and queues none
NoNotification == notifying' = notifying /\ tlsCh' = tlsCh

\* C16 as stated: an update with the TLS fields of the update before it
\* requests no notification, whatever happened between the two.
C16_NeverNotifies == [][SameTLSUpdate => NoNotification]_vars

\* C16: an update with the TLS fields of the update before it requests no
\* notification, whatever its other fields, provided that no reset has
\* cleared the credsDB since that update.
C16_NoNotificationUnlessReset ==
    [][(SameTLSUpdate /\ ~IsNil(db)) => NoNotification]_vars

\* The second update brought other versions and the same TLS settings, and
\* only the first one has requested a notification
C16_Witness ==
    /\ nUpdates = 2 /\ nResets = 0
    /\ db.id = 2 /\ db.authVersion = "v2"
    /\ TLSFields(db) = tlsHist.lastTLS
    /\ notifying = {}
    /\ tlsHist.sent = 1 /\ tlsHist.regs = 0


\* After an invocation that reported an error, and until the next
\* invocation, the loop holds an armed retry timer or is on its way from a
\* wake-up to the callback
RetryArmed ==
    (tlsHist.lastErr # NilErr /\ notifier.pc = "select") => notifier.retry

\* C17: an invocation that reports an error leaves a retry armed, whether
\* the loop was woken by a notification or by the retry timer, and is
\* followed by another invocation even if no notification arrives; so the
\* callback is invoked again until an invocation succeeds.
C17_KeepsRetrying ==
    /\ []RetryArmed
    /\ \A k \in 0..(MaxNotifierUpdates + MaxRegistrations + MaxFailures) :
          (/\ tlsHist.lastErr # NilErr
           /\ notifier.pc # "callback"
           /\ tlsHist.invoked = k)
              ~> (tlsHist.invoked > k)

\* The callback failed twice and then succeeded, woken once by the retry
\* timer and once by a notification that arrived while the retry was
\* pending
C17_Witness ==
    /\ tlsHist.invoked = 3 /\ tlsHist.failed = 2
    /\ tlsHist.recv = 2 /\ tlsHist.retried = 1
    /\ tlsHist.lastErr = NilErr
    /\ notifier.pc = "select" /\ ~notifier.retry


\* A step of registerCallback made while a callback is registered
SecondRegistration ==
    /\ tlsHist'.regs = tlsHist.regs + 1
    /\ notifier.callback # 0

\* C18: a registration made while a callback is registered returns
\* ErrCallbackAlreadyRegistered, leaves the registered callback in place
\* and requests no notification, and the caller of the package's
\* RegisterTLSRefreshCallback receives what the registration returned.
C18_SecondRegistrationFails ==
    /\ [][SecondRegistration =>
            /\ tlsHist'.regErr = ErrCallbackAlreadyRegistered
            /\ notifier' = notifier
            /\ tlsCh' = tlsCh
            /\ tlsHist'.sent = tlsHist.sent]_vars
    /\ [](tlsHist.entryErr \notin {"none", "pending"}
             => tlsHist.entryErr = tlsHist.regErr)


\* C19: the registration of the first callback queues a notification, and
\* the registered callback is eventually invoked, with or without a
\* credsDB and without any update after the registration.
C19_InvokedAfterRegistration ==
    /\ [][(notifier.callback = 0 /\ notifier'.callback # 0) => tlsCh' = 1]_vars
    /\ (notifier.callback # 0) ~> (tlsHist.invoked > 0)

\* The callback has been invoked on a Svc that never received an update,
\* the only notification being that of the registration
C19_Witness ==
    /\ tlsHist.invoked = 1
    /\ nUpdates = 0 /\ IsNil(db)
    /\ tlsHist.sent = 1 /\ tlsHist.regs = 1

----------------------------------------------------------------------------
(* SpecBlocked: updates, resets and readers of the TLS settings while the  *)
(* callback runs for as long as it likes, or fails                         *)

BlockedArrive == NCalls < MaxBlockedCalls /\ Call
BlockedRead == \E r \in BagToSet(calls) : GetTLSConfig(r)
BlockedRegister == tlsHist.regs < 1 /\ registerCallback(1)
BlockedFail == tlsHist.failed < MaxBlockedFailures /\ callback("callback failed")

BlockedNext ==
    \/ NotifierUpdate
    \/ NotifierNotify
    \/ NotifierReset
    \/ BlockedRegister
    \/ loop_ch
    \/ loop_retry
    \/ maybeExecuteCallback
    \/ CallbackOK
    \/ BlockedFail
    \/ BlockedArrive
    \/ BlockedRead

SpecBlocked == CacheInit /\ [][BlockedNext]_vars

\* The goroutines of UpdateDB and of the readers run; nothing is assumed
\* of the callback, which may never return, nor of the loop
BlockedFairness == WF_vars(NotifierNotify) /\ WF_vars(BlockedRead)

SpecBlockedLive == SpecBlocked /\ BlockedFairness

\* An invocation of the callback is running, or a retry is pending
Busy == notifier.pc = "callback" \/ notifier.retry

\* While the notifier is busy every UpdateDB and ResetSvc can take its
\* step, every UpdateDB that has released s.l can notify, and a reader has
\* fetched without waiting, can return, and holds the credsDB of the latest
\* UpdateDB that had returned when it started, or a later one
NeverBlocked ==
    Busy =>
        /\ \A c \in NotifierCaches : ENABLED UpdateDB(c)
        /\ \A id \in notifying : ENABLED notifyTLSChange(id)
        /\ ENABLED ResetSvc("DBStaleError{e1}")
        /\ \A r \in InFlight :
              /\ r.pc = "body"
              /\ Seen(r.db, r.m)
              /\ ENABLED GetTLSConfig(r)
        /\ (Done("GetTLSConfig") /\ ~IsNil(returned.db))
              => returned.db.id >= returned.m

\* C20: a callback that runs, never returns or fails, and a pending retry,
\* block neither UpdateDB nor ResetSvc nor the readers: their steps stay
\* possible, every UpdateDB that changed the TLS settings gets through
\* notifyTLSChange and returns, and a reader never waits and returns the
\* credsDB of the latest completed update or a later one.
C20_UpdatesNeverBlocked ==
    /\ []NeverBlocked
    /\ \A id \in 1..(MaxNotifierUpdates + 1) :
          (id \in notifying) ~> (id \notin notifying)

\* Two updates have completed and a reader that started after them has
\* returned the TLS settings of the second, all while the first invocation
\* of the callback has not returned
C20_Witness ==
    /\ notifier.pc = "callback" /\ tlsHist.invoked = 1 /\ tlsHist.failed = 0
    /\ nUpdates = 2 /\ retMax = 2 /\ notifying = {}
    /\ tlsHist.sent = 3
    /\ Done("GetTLSConfig") /\ returned.m = 2 /\ returned.db.id = 2

----------------------------------------------------------------------------
(* SpecCreds: service credential lookups on node lists of one or two nodes *)

\* Nodes named by host name, by IPv6 address, by a local IPv4 address and by
\* a loopback address, and a node without user name
CredsNodes ==
    {[Host |-> "beta.local", User |-> "_admin", Password |-> "foobar",
      Ports |-> {9000, 12000}, Local |-> FALSE],
     [Host |-> "fc00:0::10", User |-> "_admin", Password |-> "barfoo",
      Ports |-> {9000}, Local |-> FALSE],
     [Host |-> "10.0.0.1", User |-> "_admin", Password |-> "asdasd",
      Ports |-> {9001}, Local |-> TRUE],
     [Host |-> "127.0.0.1", User |-> "_admin", Password |-> "looppw",
      Ports |-> {11210}, Local |-> FALSE],
     [Host |-> "beta.local", User |-> "", Password |-> "nouser",
      Ports |-> {9000}, Local |-> FALSE]}

CredsCaches ==
    {[BaseCache("v1", "v1", "v1") EXCEPT !.Nodes = ns] :
        ns \in {<<>>} \cup {<<a>> : a \in CredsNodes}
                  \cup {<<a, b>> : a, b \in CredsNodes}}

CredsHosts == {"beta.local", "fc00::10", "10.0.0.1", "::1", "unknown"}
CredsPorts == {9000, 9001, 11210}

CredsArrive == NCalls < MaxCredsCalls /\ Call
CredsUpdate == \E c \in CredsCaches : nUpdates < MaxCredsUpdates /\ UpdateDB(c)
CredsGet ==
    \E r \in BagToSet(calls), host \in CredsHosts, port \in CredsPorts :
        GetCreds(r, host, port)

CredsNext ==
    \/ CredsArrive
    \/ CredsUpdate
    \/ CacheNotify
    \/ CredsGet

SpecCreds == CacheInit /\ [][CredsNext]_vars

\* Node n serves host:port as the claim has it: its host is a loopback
\* address, or host is one and n is local, or both are the same IP address,
\* or the names are equal; and port is one of its ports
Qualifies(n, host, port) ==
    /\ \/ IsLoopback(ParseIP(n.Host))
       \/ IsLoopback(ParseIP(host)) /\ n.Local
       \/ ParseIP(n.Host) # "" /\ ParseIP(n.Host) = ParseIP(host)
       \/ host = n.Host
    /\ port \in n.Ports

\* The positions of the nodes of d that serve host:port
Serving(d, host, port) ==
    {i \in 1..Len(d.nodes) : Qualifies(d.nodes[i], host, port)}

First(S) == CHOOSE i \in S : \A j \in S : i <= j

\* A GetCreds has returned from a credsDB
Looked == Done("GetCreds") /\ ~IsNil(returned.db)

ServingNamed(d, host, port) ==
    {i \in Serving(d, host, port) : d.nodes[i].User # ""}

----------------------------------------------------------------------------
(* SpecLRU: every sequence of Get and Set on one LRU cache of capacity     *)
(* LRUCapacity                                                             *)

LRUKeys == {"k1", "k2", "k3", "k4"}
LRUVals == {"a", "b"}

NOps == Len(lru.used)

\* key becomes the latest entry of the history of use
Use(used, key) == <<key>> \o used

svcFrame ==
    UNCHANGED <<svcVars, semaphore, cacheVars, tlsCh, notifier, tlsHist,
                notifying, calls, returned, nUpdates, nResets, retMax,
                lastResetAt, verdicts, stale, arrivals, Default, inits, sitter>>

\* cache.Get(key); a miss is no use of the key
LRUCacheGet(key) ==
    /\ NOps < MaxLRUOps
    /\ lru' = [cache |-> LRUGet(lru.cache, key),
               used |-> IF LRUFound(lru.cache, key) THEN Use(lru.used, key)
                        ELSE <<"">> \o lru.used,
               op |-> [kind |-> "get", key |-> key, before |-> lru.cache,
                       used |-> lru.used]]
    /\ svcFrame

\* cache.Set(key, val)
LRUCacheSet(key, val) ==
    /\ NOps < MaxLRUOps
    /\ lru' = [cache |-> LRUSet(lru.cache, key, val, "", LRUCapacity),
               used |-> Use(lru.used, key),
               op |-> [kind |-> "set", key |-> key, before |-> lru.cache,
                       used |-> lru.used]]
    /\ svcFrame

LRUGets == \E key \in LRUKeys : LRUCacheGet(key)
LRUSets == \E key \in LRUKeys, val \in LRUVals : LRUCacheSet(key, val)

LRUNext ==
    \/ LRUGets
    \/ LRUSets

SpecLRU == CacheInit /\ [][LRUNext]_vars

KeysOf(cache) == {cache[i].key : i \in 1..Len(cache)}

\* The position of the latest use of key in the history used (1 is the
\* latest operation), 0 when the key was never used
LastUse(used, key) ==
    IF \E i \in 1..Len(used) : used[i] = key
    THEN CHOOSE i \in 1..Len(used) :
            used[i] = key /\ \A j \in 1..(i - 1) : used[j] # key
    ELSE 0

\* The latest operation was a Set of a new key into a full cache
Overflow ==
    /\ lru.op.kind = "set"
    /\ lru.op.key \notin KeysOf(lru.op.before)
    /\ Len(lru.op.before) = LRUCapacity

Evicted == KeysOf(lru.op.before) \ KeysOf(lru.cache)

\* C22: the cache never holds more than LRUCapacity entries and no key
\* twice; a Set of a new key into a full cache evicts exactly one entry,
\* whose latest use by a Set or a Get hit is older than that of every other
\* entry that was in the cache, and it stores the new key; no other
\* operation evicts an entry.
C22_EvictsLeastRecentlyUsed ==
    /\ Len(lru.cache) <= LRUCapacity
    /\ Cardinality(KeysOf(lru.cache)) = Len(lru.cache)
    /\ lru.op.kind # "none" =>
          IF Overflow
          THEN /\ Cardinality(Evicted) = 1
               /\ lru.op.key \in KeysOf(lru.cache)
               /\ \A v \in Evicted, k \in KeysOf(lru.op.before) \ Evicted :
                     LastUse(lru.op.used, v) > LastUse(lru.op.used, k)
          ELSE Evicted = {}

\* A Set into the full cache evicted the entry that was stored last,
\* because the older entry had been read since
C22_Witness ==
    /\ Overflow
    /\ Len(lru.op.used) >= 3
    /\ lru.op.used[1] # "" /\ lru.op.used[1] = lru.op.used[3]
    /\ Evicted = {lru.op.used[2]}

----------------------------------------------------------------------------
(* SpecInit: the initialization of cbauth's Default authenticator by       *)
(* init() and by concurrent calls of InitExternal, InternalRetryDefaultInit *)
(* and InternalRetryDefaultInitWithService                                 *)

initFrame ==
    UNCHANGED <<svcVars, semaphore, cacheVars, tlsCh, notifier, tlsHist,
                notifying, calls, returned, nUpdates, nResets, retMax,
                lastResetAt, verdicts, stale, arrivals, lru, sitter>>

NInits == inits.checked + inits.made + inits.trues + inits.falses

\* SplitHostPort(mgmtHostPort) succeeds
WellFormed(mgmtHostPort) == mgmtHostPort = "127.0.0.1:8091"


\* startDefault(rpcsvc, svc): Default = &authImpl{svc} and the goroutine
\* that runs runRPCForSvc; svc is the number of the Svc, i the record of
\* the initialization calls as the caller leaves it
startDefault(svc, i) ==
    /\ Default' = svc
    /\ inits' = [i EXCEPT !.sitters = @ + 1]

\* init(): with the environment of ns_server (env) the Default
\* authenticator is started on a new Svc before main, without it Default
\* stays nil
init(env) ==
    /\ ~inits.loaded
    /\ IF env
       THEN startDefault(1, [inits EXCEPT !.loaded = TRUE, !.services = 1])
       ELSE /\ inits' = [inits EXCEPT !.loaded = TRUE]
            /\ UNCHANGED Default
    /\ initFrame

\* url.Parse of the base URL made of host, port and service succeeds
Parses(service) == service # "%zz"

\* doInternalRetryDefaultInitWithService up to url.Parse: false when
\* Default is set or mgmtHostPort is malformed, false with an error when
\* the URL does not parse
doInternalRetryDefaultInitWithService(service, mgmtHostPort) ==
    /\ inits.loaded
    /\ NInits < MaxInits
    /\ inits' = IF Default # 0 \/ ~WellFormed(mgmtHostPort)
                THEN [inits EXCEPT !.falses = @ + 1]
                ELSE IF ~Parses(service)
                THEN [inits EXCEPT !.falses = @ + 1, !.errs = @ + 1]
                ELSE [inits EXCEPT !.checked = @ + 1]
    /\ UNCHANGED Default
    /\ initFrame

\* svc := newSvc(); svc.SetConnectInfo(mgmtHostPort, user, password)
newSvc ==
    /\ inits.checked > 0
    /\ inits' = [inits EXCEPT !.checked = @ - 1, !.made = @ + 1,
                              !.services = @ + 1]
    /\ UNCHANGED Default
    /\ initFrame

\* startDefault(revrpc.MustService(u.String()), svc); return true, nil.
\* The call holds one of the Svcs not yet started, which are numbered last.
InitStart ==
    /\ inits.loaded /\ inits.made > 0
    /\ \E svc \in (inits.services - inits.made + 1)..inits.services :
          startDefault(svc, [inits EXCEPT !.made = @ - 1, !.trues = @ + 1])
    /\ initFrame

InitInit == \E env \in BOOLEAN : init(env)
InitEnter ==
    \E service \in {"index-cbauth", "%zz"},
       mgmtHostPort \in {"127.0.0.1:8091", "nohost"} :
        doInternalRetryDefaultInitWithService(service, mgmtHostPort)

InitNext ==
    \/ InitInit
    \/ InitEnter
    \/ newSvc
    \/ InitStart

\* The package before init() has run
Unloaded == NewSVCForTest(1, InitErr)

SpecInit == Unloaded /\ [][InitNext]_vars

\* C23: at most one initialization call returns true and at most one Svc
\* with its babysitter is started, also when the calls run concurrently;
\* once Default is set it is not replaced.
C23_InitializedOnce ==
    /\ inits.trues <= 1
    /\ inits.services <= 1
    /\ inits.sitters <= 1

----------------------------------------------------------------------------
(* SpecSitter: runRPCForSvc on a Svc made by newSvc, with callers waiting  *)
(* in the grace period, updates and the grace timeout                      *)

errDisconnected == "revrpc connection to ns_server was closed"

\* The errors BabysitService reports to the policy; NilErr when the
\* connection ended without one
SitterErrs == {NilErr, "e1", "e2"}

\* &DBStaleError{e}
DBStaleError(e) ==
    CASE e = NilErr -> InitErr
      [] e = "e1" -> "DBStaleError{e1}"
      [] e = "e2" -> "DBStaleError{e2}"
      [] e = errDisconnected ->
            "DBStaleError{revrpc connection to ns_server was closed}"

\* Faulty variant: the reported error is wrapped as it is
resetErr_asIs(err) == err

\* resetErr in cbauthPolicy
resetErr(err) == IF err = NilErr THEN errDisconnected ELSE err

sitterFrame ==
    UNCHANGED <<svcVars, semaphore, cacheVars, tlsCh, notifier, tlsHist,
                notifying, nUpdates, nResets, retMax, lastResetAt, verdicts,
                stale, arrivals, lru, Default, inits>>

\* BabysitService calls cbauthPolicy(err)
cbauthPolicy(err) ==
    /\ sitter.pc = "run"
    /\ sitter.reports < MaxSitterReports
    /\ sitter' = [sitter EXCEPT !.pc = "policy", !.err = err,
                                !.at = nResets, !.reports = @ + 1]
    /\ noCalls
    /\ sitterFrame

\* cbauthimpl.ResetSvc(svc, &DBStaleError{resetErr})
cbauthPolicy_ResetSvc ==
    /\ sitter.pc = "policy"
    /\ nResets = sitter.at
    /\ ResetSvc(DBStaleError(resetErr(sitter.err)))

\* return defPolicy(err): the default policy restarts the service or gives
\* up, which ends BabysitService
defPolicy(restart) ==
    /\ sitter.pc = "policy"
    /\ nResets > sitter.at
    /\ sitter' = [sitter EXCEPT !.pc = IF restart THEN "run" ELSE "stopped",
                                !.consulted = @ + 1]
    /\ noCalls
    /\ sitterFrame

SitterArrive == NCalls < MaxSitterCalls /\ Call
SitterWake == \E r \in BagToSet(calls) : fetchDB_wake(r)
SitterRead == \E r \in BagToSet(calls) : GetTLSConfig(r)
SitterUpdate ==
    \E c \in {BaseCache("v1", "v1", "v1")} :
        nUpdates < MaxSitterUpdates /\ UpdateDB(c)
SitterReport == \E err \in SitterErrs : cbauthPolicy(err)
SitterPolicy == \E restart \in BOOLEAN : defPolicy(restart)

SitterNext ==
    \/ SitterArrive
    \/ SitterWake
    \/ SitterRead
    \/ SitterUpdate
    \/ NotifierNotify
    \/ Timeout
    \/ SitterReport
    \/ cbauthPolicy_ResetSvc
    \/ SitterPolicy

\* newSvc(): NewSVC(waitBeforeStale, &DBStaleError{})
SitterInit == NewSVCForTest(1, InitErr)

SpecSitter == SitterInit /\ [][SitterNext]_vars

\* The goroutine of BabysitService goes on inside cbauthPolicy, and a
\* goroutine waiting on the closed channel is scheduled
SitterFairness == WF_vars(cbauthPolicy_ResetSvc) /\ WF_vars(SitterWake)

SpecSitterLive == SpecSitter /\ SitterFairness

Waiting == \E r \in BagToSet(calls) : r.pc = "wait"

\* A call that had waited on the fresh channel returned, and the channel was
\* closed by ResetSvc: every ResetSvc so far ran before any UpdateDB, and
\* the grace timer has not fired
ReleasedByReset ==
    /\ Done("GetTLSConfig")
    /\ returned.blocked
    /\ nResets > 0 /\ lastResetAt = 0
    /\ timer = "armed"

Wrapped ==
    DBStaleError(IF sitter.err = NilErr THEN errDisconnected ELSE sitter.err)

----------------------------------------------------------------------------
(* C25 under Spec: updates and resets between the fetchDB of VerifyOnServer *)
(* and its outbound call                                                   *)

\* C25: a VerifyPassword that got a credsDB from fetchDB ends with an
\* identity or an error (authentication failure, transport error or the
\* stale error), never with a fault on a nil s.db, whatever UpdateDB and
\* ResetSvc do while it runs.
C25_NoFaultOnReset ==
    Done("VerifyPassword") /\ ~IsNil(returned.db2) =>
        ~(returned.kind = "panic" /\ returned.err = "nil pointer dereference")

----------------------------------------------------------------------------
(* SpecLocal: password verification on credsDBs with and without a node    *)
(* flagged local                                                           *)

\* A Cache with a local node, one whose only node is not local and one
\* without nodes
LocalCaches ==
    {BaseCache("v1", "v1", "v1"),
     [BaseCache("v2", "v2", "v2") EXCEPT !.Nodes = <<OtherNode>>],
     [BaseCache("v3", "v3", "v3") EXCEPT !.Nodes = <<>>]}

LocalArrive == NCalls < MaxLocalCalls /\ Call
LocalUpdate == \E c \in LocalCaches : nUpdates < MaxLocalUpdates /\ UpdateDB(c)
LocalAuth ==
    \E r \in BagToSet(calls), user \in {"@ns_server", "bob"},
       password \in {"", "asdasd"} : VerifyPassword(r, user, password)

LocalNext ==
    \/ LocalArrive
    \/ LocalUpdate
    \/ CacheNotify
    \/ LocalAuth
    \/ CacheAuthFetch
    \/ CacheAuthCheck
    \/ CacheAuthWait
    \/ SpecialAuthDo

SpecLocal == CacheInit /\ [][LocalNext]_vars

\* The passwords of the nodes of d that are flagged local
LocalPasswords(d) ==
    {d.nodes[i].Password : i \in {j \in 1..Len(d.nodes) : d.nodes[j].Local}}

\* A VerifyPassword returned creds without an outbound call and without an
\* entry of the password cache
AcceptedLocally ==
    /\ Done("VerifyPassword")
    /\ returned.kind = "ok"
    /\ returned.nOut = 0 /\ returned.hitVer = ""

\* C26: credentials are accepted locally, as the admin identity and without
\* an outbound call, only when the credsDB of the call has a node flagged
\* local and the password is that node's password; on a credsDB without a
\* local node nothing is accepted locally, an empty password included.
C26_LocalNodeRequired ==
    AcceptedLocally => returned.arg.password \in LocalPasswords(returned.db)

----------------------------------------------------------------------------
(* C27 under SpecNotifierLive                                              *)

\* The numbers of invocations the bounds allow: one per notification and
\* one per retry
Invocations == 0..(MaxNotifierUpdates + MaxRegistrations + MaxFailures)

\* An UpdateDB that changed the TLS settings has installed its credsDB and
\* not yet returned, and a callback is registered
TLSChangeInstalled == notifying # {} /\ notifier.callback # 0

\* C27: once an UpdateDB that changes the TLS settings has installed its
\* credsDB while a callback is registered, an invocation of the callback
\* starts later, whatever other updates, registrations and steps of the
\* loop interleave.
C27_NoTLSChangeLost ==
    \A n \in Invocations :
        (TLSChangeInstalled /\ tlsHist.invoked = n) ~> (tlsHist.invoked > n)

\* The callback runs for the second time, woken by the notification of an
\* update that installed its credsDB while the first invocation was running
C27_Witness ==
    /\ notifier.pc = "callback"
    /\ tlsHist.invoked = 2 /\ tlsHist.regs = 1 /\ tlsHist.failed = 0
    /\ tlsHist.sentAtRun = 1
    /\ tlsHist.sentAtRecv = 2
    /\ notifying = {}

----------------------------------------------------------------------------
(* C28 under Spec                                                          *)

\* s.freshChan is non-nil only on a Svc made with a grace period, before
\* any UpdateDB, ResetSvc and Timeout, with s.db nil and the channel open;
\* after the first of them the channel of such a Svc is closed
HandleOnlyBeforeEvent ==
    /\ freshChan => IsNil(db) /\ ~Event /\ ~chanClosed /\ timer = "armed"
    /\ (~Event /\ timer = "armed") => freshChan
    /\ (Event /\ timer # "none") => chanClosed /\ ~freshChan
    /\ timer = "none" => ~chanClosed /\ ~freshChan

\* The channel is closed only by a step that finds s.freshChan non-nil and
\* sets it to nil, and a nil s.freshChan stays nil
ReleasedOnce ==
    /\ (~chanClosed /\ chanClosed') => (freshChan /\ ~freshChan')
    /\ ~freshChan => ~freshChan'

\* The grace timer fires after an UpdateDB or a ResetSvc
LateTimeout == timer = "armed" /\ timer' = "fired" /\ (nUpdates > 0 \/ nResets > 0)

\* C28: a wait handle exists only while no credsDB is current and no
\* UpdateDB, ResetSvc or Timeout has occurred; it is closed once, by the
\* first of them, never twice, and never exists again; a Timeout that fires
\* after an UpdateDB or a ResetSvc changes nothing of the Svc.
C28_HandleReleasedOnce ==
    /\ []HandleOnlyBeforeEvent
    /\ [][ReleasedOnce]_vars
    /\ [][LateTimeout => UNCHANGED <<db, staleErr, freshChan, chanClosed>>]_vars

\* The grace timer has fired on a Svc whose channel an UpdateDB or ResetSvc
\* had closed, and the credsDB of the update is current
C28_Witness ==
    /\ timer = "fired" /\ chanClosed /\ ~freshChan
    /\ nUpdates > 0 /\ nResets > 0 /\ lastResetAt = 0
    /\ ~IsNil(db)

----------------------------------------------------------------------------
(* SpecStale: construction and ResetSvc offered nil errors too              *)

\* The errors handed to NewSVC and ResetSvc, nil among them
OfferedErrs == {NilErr, InitErr, "DBStaleError{e1}"}

\* NewSVCForTest panics on a nil error: no Svc is made
StaleInit ==
    \E period \in {0, 1}, err \in OfferedErrs \ {"DBStaleError{e1}"} :
        NewSVCForTest(period, err)

StaleArrive == NCalls < MaxStaleCalls /\ Call
StaleWake == \E r \in BagToSet(calls) : fetchDB_wake(r)
StaleRead == \E r \in BagToSet(calls) : GetTLSConfig(r)
StaleUpdate ==
    \E c \in NotifierCaches : nUpdates < MaxStaleUpdates /\ UpdateDB(c)
\* ResetSvc panics on a nil error before it takes s.l
StaleReset ==
    \E e \in OfferedErrs \ {InitErr} : nResets < MaxStaleResets /\ ResetSvc(e)

StaleNext ==
    \/ StaleArrive
    \/ StaleWake
    \/ StaleRead
    \/ StaleUpdate
    \/ NotifierNotify
    \/ StaleReset
    \/ Timeout

SpecStale == StaleInit /\ [][StaleNext]_vars

\* C29: s.staleErr is non-nil in every reachable state, whatever errors
\* construction and ResetSvc are offered; an UpdateDB leaves it as it is;
\* no call ends in the fault of staleError, and a call without credsDB
\* returns the recorded error.
C29_StaleErrNeverNil ==
    /\ [](staleErr # NilErr)
    /\ [](returned.kind # "panic")
    /\ [](Done("GetTLSConfig") /\ IsNil(returned.db) =>
            returned.kind = "error" /\ returned.err = staleErr)
    /\ [][nUpdates' # nUpdates => staleErr' = staleErr]_vars

\* A call returned the error of the second ResetSvc, which followed an
\* UpdateDB
C29_Witness ==
    /\ Done("GetTLSConfig") /\ IsNil(returned.db)
    /\ nUpdates = 1 /\ nResets = 2 /\ lastResetAt = 1
    /\ returned.err = "DBStaleError{e1}"

====
